---- MODULE Spec2Model ----
(***************************************************************************)
(* Elimination lottery (telegram_lottery Anchor program): one game, its    *)
(* roster, its per-round VRF result accounts, the global treasury ledger   *)
(* and the token balances the handlers move.  Every instruction is one     *)
(* atomic action; a rejected instruction changes nothing (a Solana         *)
(* transaction that returns Err is rolled back), so it is a stuttering     *)
(* step and the handler's checks are the operator <Handler>Error, which    *)
(* returns the first failing check in the order the program evaluates them.*)
(***************************************************************************)
EXTENDS Integers, Sequences, FiniteSets, TLC

\* ------------------------------------------------------------------ bounds
\* Largest max_players a modelled game is created with (program limit: 100).
MaxPlayersCfg == 3
\* Cap on current_round (program limit: 100 drawn numbers fit the account).
MaxRound == 2
\* Tokens every wallet holds before the game.
InitialBalance == 60

\* --------------------------------------------------------- program constants
MAX_PLAYERS == 100
\* Option::None of selected_number / eliminated_round / started_at / completed_at.
None == -1

\* Pubkeys.  Wallets may sign any instruction; a game created with fewer than
\* MaxPlayersCfg players leaves a wallet outside the roster.
Wallets == 1..MaxPlayersCfg
GameAuthority == MaxPlayersCfg + 2
VrfOracle == MaxPlayersCfg + 3
TreasuryAuthority == MaxPlayersCfg + 4
Signers == Wallets \cup {GameAuthority, VrfOracle, TreasuryAuthority}
\* Token accounts: one per wallet (keyed by the wallet), the game's escrow,
\* the treasury's token account and the treasury authority's destination.
EscrowAccount == MaxPlayersCfg + 5
TreasuryTokenAccount == MaxPlayersCfg + 6
DestinationTokenAccount == MaxPlayersCfg + 7
TokenAccounts == Wallets \cup {EscrowAccount, TreasuryTokenAccount, DestinationTokenAccount}

\* Clock values (unix seconds) the model lets the clock take.  Games are
\* created at 0 with payment_deadline_minutes = 0, so 0 is the deadline itself
\* (the last second a join is accepted) and 1 the first second past it; 86400
\* is exactly 24 h after the start and 86401 the first second past that.
TimePoints == {0, 1, 86400, 86401}
PaymentDeadlineMinutes == 0

VARIABLES
  game_state,      \* GameState account
  player_list,     \* PlayerList.players (ordered)
  vrf_results,     \* VrfResult accounts, by round (PDA ["vrf", game_id, round])
  treasury_state,  \* TreasuryState account
  balances,        \* amount held by each token account
  now,             \* Clock sysvar unix_timestamp
  call,            \* a call of a pure helper function: its arguments and result
  program_state,   \* raffle-v4 ProgramState account
  raffle_account,  \* raffle-v4 RaffleAccount of the one raffle id followed
  ticket_accounts, \* raffle-v4 TicketAccount PDAs, by ticket_number + 1
  vrf_request_account, \* the oracle's request account of the raffle
  lamports         \* lamports held by each raffle-v4 wallet and the escrow PDA

\* the accounts of the lottery program and those of the raffle-v4 program
lotteryVars == <<game_state, player_list, vrf_results, treasury_state, balances, call>>
raffleVars == <<program_state, raffle_account, ticket_accounts, vrf_request_account, lamports>>
vars == <<game_state, player_list, vrf_results, treasury_state, balances, now, call,
          program_state, raffle_account, ticket_accounts, vrf_request_account, lamports>>

\* no helper call is being followed
NoCall == [fn |-> "none"]

\* ------------------------------------------------------------------ helpers
U8(x) == x % 256

Players == {player_list[i] : i \in 1..Len(player_list)}
RosterWallets == {player_list[i].wallet : i \in 1..Len(player_list)}
\* players.iter().find(|p| p.wallet == key): index of the first match, 0 if none
FindPlayer(w) ==
  IF w \in RosterWallets
  THEN CHOOSE i \in 1..Len(player_list) :
         /\ player_list[i].wallet = w
         /\ \A j \in 1..(i - 1) : player_list[j].wallet # w
  ELSE 0
\* players.iter().filter(|p| p.eliminated_round.is_none())
ActiveIdx == {i \in 1..Len(player_list) : player_list[i].eliminated_round = None}

\* ---------------------------------------------------------------------- inputs
\* Wallets are interchangeable: new wallets arrive in index order, and any
\* wallet already in the roster may try to join again.
JoinInputs == {w \in Wallets : w <= Len(player_list) + 1}
\* Largest number a player asks for (0 and range.max + 1 are out of range).
MaxNumberInput == 2
NumberInputs == (0..MaxNumberInput) \cup {game_state.number_range.max + 1}
RoundInputs == 0..(MaxRound + 1)
ProofLenInputs == {63, 64, 256, 257}
ReasonLenInputs == {20, 201}
AmountInputs == {None, 0, 4, 100}

\* ------------------------------------------------------- raffle-v4: accounts
\* Wallets of the raffle program: the raffle creator, two ticket buyers, the
\* program authority, the fee treasury and a second treasury the authority can
\* switch to; RaffleEscrow is the escrow PDA of the raffle.
RaffleCreator == MaxPlayersCfg + 10
RaffleBuyers == {MaxPlayersCfg + 11, MaxPlayersCfg + 12}
ProgramAuthority == MaxPlayersCfg + 13
RaffleTreasury == MaxPlayersCfg + 14
AltTreasury == MaxPlayersCfg + 15
RaffleEscrow == MaxPlayersCfg + 16
RaffleSigners == {RaffleCreator, ProgramAuthority} \cup RaffleBuyers
RaffleWallets == RaffleSigners \cup {RaffleTreasury, AltTreasury}

\* -------------------------------------------------- raffle-v4: u64 arithmetic
\* A u64 of the raffle program (an amount of lamports, a counter of the
\* program state) is held as its 8 bytes, least significant first
\* (u64::to_le_bytes), so that 64-bit sums, differences and products and
\* their overflow are computed exactly.
\* the u64 of a number below 2^31
U64(n) ==
  << n % 256, (n \div 256) % 256, (n \div 65536) % 256, (n \div 16777216) % 256,
     0, 0, 0, 0 >>

\* a + b: s_i is byte i of the sum with the carry out of it; overflow tells
\* whether the sum exceeds a u64, value is the sum modulo 2^64
AddU64(a, b) ==
  LET s1 == a[1] + b[1]
      s2 == a[2] + b[2] + (s1 \div 256)
      s3 == a[3] + b[3] + (s2 \div 256)
      s4 == a[4] + b[4] + (s3 \div 256)
      s5 == a[5] + b[5] + (s4 \div 256)
      s6 == a[6] + b[6] + (s5 \div 256)
      s7 == a[7] + b[7] + (s6 \div 256)
      s8 == a[8] + b[8] + (s7 \div 256)
  IN  [ overflow |-> s8 >= 256,
        value |-> << s1 % 256, s2 % 256, s3 % 256, s4 % 256,
                     s5 % 256, s6 % 256, s7 % 256, s8 % 256 >> ]
WrappingAdd(a, b) == AddU64(a, b).value
AddOverflows(a, b) == AddU64(a, b).overflow

\* a - b: d_i is byte i of the difference, negative when it borrows; overflow
\* tells whether b > a, value is the difference modulo 2^64
SubU64(a, b) ==
  LET d1 == a[1] - b[1]
      d2 == a[2] - b[2] - (IF d1 < 0 THEN 1 ELSE 0)
      d3 == a[3] - b[3] - (IF d2 < 0 THEN 1 ELSE 0)
      d4 == a[4] - b[4] - (IF d3 < 0 THEN 1 ELSE 0)
      d5 == a[5] - b[5] - (IF d4 < 0 THEN 1 ELSE 0)
      d6 == a[6] - b[6] - (IF d5 < 0 THEN 1 ELSE 0)
      d7 == a[7] - b[7] - (IF d6 < 0 THEN 1 ELSE 0)
      d8 == a[8] - b[8] - (IF d7 < 0 THEN 1 ELSE 0)
  IN  [ overflow |-> d8 < 0,
        value |-> << (d1 + 256) % 256, (d2 + 256) % 256, (d3 + 256) % 256,
                     (d4 + 256) % 256, (d5 + 256) % 256, (d6 + 256) % 256,
                     (d7 + 256) % 256, (d8 + 256) % 256 >> ]
WrappingSub(a, b) == SubU64(a, b).value
\* a >= b
GreaterOrEqual(a, b) == ~SubU64(a, b).overflow

\* a * m for a u64 a and a factor m below 2^23 (a u16 fee rate, a ticket
\* count): p_i is byte i of the product with the carry out of it; overflow
\* tells whether the product exceeds a u64, value is the product modulo 2^64
MulU64(a, m) ==
  LET p1 == a[1] * m
      p2 == a[2] * m + (p1 \div 256)
      p3 == a[3] * m + (p2 \div 256)
      p4 == a[4] * m + (p3 \div 256)
      p5 == a[5] * m + (p4 \div 256)
      p6 == a[6] * m + (p5 \div 256)
      p7 == a[7] * m + (p6 \div 256)
      p8 == a[8] * m + (p7 \div 256)
  IN  [ overflow |-> p8 >= 256,
        value |-> << p1 % 256, p2 % 256, p3 % 256, p4 % 256,
                     p5 % 256, p6 % 256, p7 % 256, p8 % 256 >> ]
WrappingMul(a, m) == MulU64(a, m).value
MulOverflows(a, m) == MulU64(a, m).overflow

\* a / d for a divisor d below 2^23: long division from the top byte; r_i is
\* the remainder left by the bytes above i, shifted, plus byte i
DivU64(a, d) ==
  LET r8 == a[8]
      r7 == (r8 % d) * 256 + a[7]
      r6 == (r7 % d) * 256 + a[6]
      r5 == (r6 % d) * 256 + a[5]
      r4 == (r5 % d) * 256 + a[4]
      r3 == (r4 % d) * 256 + a[3]
      r2 == (r3 % d) * 256 + a[2]
      r1 == (r2 % d) * 256 + a[1]
  IN  << r1 \div d, r2 \div d, r3 \div d, r4 \div d,
         r5 \div d, r6 \div d, r7 \div d, r8 \div d >>

\* ProgramState::validate_fee_rate
ValidateFeeRateOk(fee_rate) == fee_rate <= 1000

\* initialize_program
InitializeProgramError(fee_rate) ==
  IF ~ValidateFeeRateOk(fee_rate) THEN "InvalidFeeRate" ELSE "Ok"

InitializeProgram(fee_rate, treasury) ==
  [ authority |-> ProgramAuthority, treasury |-> treasury, fee_rate |-> fee_rate,
    total_raffles |-> U64(0), total_volume |-> U64(0), is_paused |-> FALSE ]

\* The raffle PDA before create_raffle: not initialized.  Option fields hold
\* None when unset.
RaffleAccountUninitialized ==
  [ initialized |-> FALSE, creator |-> None, prize_amount |-> U64(0),
    ticket_price |-> U64(0),
    max_tickets |-> 0, tickets_sold |-> 0, start_time |-> 0, end_time |-> 0,
    status |-> "Active", vrf_request |-> None, winner |-> None,
    winning_ticket |-> None, vrf_proof |-> None, created_at |-> 0,
    drawn_at |-> None, distributed_at |-> None ]

\* The oracle's request account: no data before the request, all-zero
\* randomness while the request is unfulfilled, the random bytes afterwards.
VrfRequestEmpty == [has_data |-> FALSE, randomness |-> <<0, 0, 0, 0, 0, 0, 0, 0>>]

\* The raffle program initialized with a 3% fee, no raffle created yet.
NoRaffleYet ==
  /\ program_state = InitializeProgram(300, RaffleTreasury)
  /\ raffle_account = RaffleAccountUninitialized
  /\ ticket_accounts = <<>>
  /\ vrf_request_account = VrfRequestEmpty
  /\ lamports = [a \in RaffleWallets \cup {RaffleEscrow} |-> U64(0)]


\* --------------------------------------------------------------- create_game
MAX_GAME_ID_LEN == 16

\* game_id_len: game_id.len(), the length in bytes of the id the caller passes
CreateGameError(game_id_len, entry_fee, max_players, winner_count) ==
  IF ~(game_id_len <= MAX_GAME_ID_LEN) THEN "GameIdTooLong"
  ELSE IF entry_fee <= 0 THEN "InvalidEntryFee"
  ELSE IF ~(max_players >= 2 /\ max_players <= MAX_PLAYERS) THEN "InvalidWinnerCount"
  ELSE IF ~(winner_count > 0 /\ winner_count < max_players) THEN "InvalidWinnerCount"
  ELSE "Ok"

\* number_range of a new game: min 1, max (max_players * 2) as u8
NumberRange(max_players) == [min |-> 1, max |-> U8(max_players * 2)]

CreateGame(entry_fee, max_players, winner_count, payment_deadline_minutes, clock) ==
  [ authority        |-> GameAuthority,
    entry_fee        |-> entry_fee,
    max_players      |-> max_players,
    winner_count     |-> winner_count,
    state            |-> "Joining",
    prize_pool       |-> 0,
    treasury_fee     |-> 0,
    number_range     |-> NumberRange(max_players),
    created_at       |-> clock,
    started_at       |-> None,
    completed_at     |-> None,
    payment_deadline |-> clock + payment_deadline_minutes * 60,
    current_round    |-> 0,
    drawn_numbers    |-> <<>>,
    vrf_oracle       |-> VrfOracle,
    vrf_request_pending |-> FALSE,
    pending_round    |-> 0 ]

\* initialize: the treasury ledger exists before any game
InitializeTreasury ==
  [ authority |-> TreasuryAuthority, total_collected |-> 0,
    total_distributed |-> 0, pending_withdrawal |-> 0 ]

\* Parameters create_game is called with (invalid ones are rejected).
GameIdLenInputs == {MAX_GAME_ID_LEN, MAX_GAME_ID_LEN + 1}
EntryFeeInputs == {0, 25}
MaxPlayersInputs == 1..MaxPlayersCfg
WinnerCountInputs == 0..MaxPlayersCfg

Init ==
  /\ call = NoCall
  /\ now = 0
  /\ \E g \in GameIdLenInputs, f \in EntryFeeInputs, m \in MaxPlayersInputs,
        k \in WinnerCountInputs :
       /\ CreateGameError(g, f, m, k) = "Ok"
       /\ game_state = CreateGame(f, m, k, PaymentDeadlineMinutes, 0)
  /\ player_list = <<>>
  /\ vrf_results = <<>>
  /\ treasury_state = InitializeTreasury
  /\ NoRaffleYet
  /\ balances = [a \in TokenAccounts |-> IF a \in Wallets THEN InitialBalance ELSE 0]

\* ---------------------------------------------------------------------- clock
\* The clock is followed while a handler's guard can still read it (the
\* payment deadline and the selection timeout); afterwards it is only recorded.
Tick ==
  /\ game_state.state \in {"Joining", "NumberSelection"}
  /\ \E t \in TimePoints : t > now /\ now' = t
  /\ UNCHANGED <<game_state, player_list, vrf_results, treasury_state, balances, call, raffleVars>>

\* ------------------------------------------------------------------ join_game
\* token::transfer(from, to, amount): fails when the source holds less
TransferOk(from, amount) == balances[from] >= amount
Transfer(from, to, amount) ==
  [balances EXCEPT ![from] = @ - amount, ![to] = @ + amount]

\* join_game without its payment-deadline check
JoinGameErrorNoDeadline(w) ==
  IF game_state.state # "Joining" THEN "InvalidGameState"
  ELSE IF ~(Len(player_list) < game_state.max_players) THEN "GameFull"
  ELSE IF w \in RosterWallets THEN "PlayerAlreadyJoined"
  ELSE IF ~TransferOk(w, game_state.entry_fee) THEN "InsufficientFunds"
  ELSE "Ok"

\* join_game without its duplicate-wallet check
JoinGameErrorNoDuplicateCheck(w) ==
  IF game_state.state # "Joining" THEN "InvalidGameState"
  ELSE IF ~(now <= game_state.payment_deadline) THEN "PaymentDeadlineExpired"
  ELSE IF ~(Len(player_list) < game_state.max_players) THEN "GameFull"
  ELSE IF ~TransferOk(w, game_state.entry_fee) THEN "InsufficientFunds"
  ELSE "Ok"

\* join_game open to a game in any pre-play state, with an off-by-one capacity check
JoinGameErrorOverCapacity(w) ==
  IF game_state.state \notin {"Joining", "NumberSelection"} THEN "InvalidGameState"
  ELSE IF ~(now <= game_state.payment_deadline) THEN "PaymentDeadlineExpired"
  ELSE IF ~(Len(player_list) <= game_state.max_players) THEN "GameFull"
  ELSE IF w \in RosterWallets THEN "PlayerAlreadyJoined"
  ELSE IF ~TransferOk(w, game_state.entry_fee) THEN "InsufficientFunds"
  ELSE "Ok"

\* join_game that still admits a player one second after the deadline
JoinGameErrorDeadlineGrace(w) ==
  IF game_state.state # "Joining" THEN "InvalidGameState"
  ELSE IF ~(now <= game_state.payment_deadline + 1) THEN "PaymentDeadlineExpired"
  ELSE IF ~(Len(player_list) < game_state.max_players) THEN "GameFull"
  ELSE IF w \in RosterWallets THEN "PlayerAlreadyJoined"
  ELSE IF ~TransferOk(w, game_state.entry_fee) THEN "InsufficientFunds"
  ELSE "Ok"

JoinGameError(w) ==
  IF game_state.state # "Joining" THEN "InvalidGameState"
  ELSE IF ~(now <= game_state.payment_deadline) THEN "PaymentDeadlineExpired"
  ELSE IF ~(Len(player_list) < game_state.max_players) THEN "GameFull"
  ELSE IF w \in RosterWallets THEN "PlayerAlreadyJoined"
  ELSE IF ~TransferOk(w, game_state.entry_fee) THEN "InsufficientFunds"
  ELSE "Ok"

NewPlayer(w) ==
  [ wallet |-> w, selected_number |-> None, eliminated_round |-> None,
    is_winner |-> FALSE, prize_claimed |-> FALSE, prize_amount |-> 0 ]

\* the 10% fee computed as whole hundredths first (loses the tens)
FeeAmountLossy(entry_fee) == (entry_fee \div 100) * 10

\* fee_amount = entry_fee.checked_div(10)
FeeAmount(entry_fee) == entry_fee \div 10

\* join_game whose last join moves the full game straight to Playing
JoinGameStateSkipsSelection(w) ==
  LET joined == Append(player_list, NewPlayer(w))
      g1 == [game_state EXCEPT
               !.prize_pool = @ + game_state.entry_fee,
               !.treasury_fee = @ + FeeAmount(game_state.entry_fee)]
  IN  IF Len(joined) = game_state.max_players
      THEN [g1 EXCEPT !.state = "Playing", !.started_at = now]
      ELSE g1

\* join_game whose last join does not record the start time
JoinGameStateNoStartTime(w) ==
  LET joined == Append(player_list, NewPlayer(w))
      g1 == [game_state EXCEPT
               !.prize_pool = @ + game_state.entry_fee,
               !.treasury_fee = @ + FeeAmount(game_state.entry_fee)]
  IN  IF Len(joined) = game_state.max_players
      THEN [g1 EXCEPT !.state = "NumberSelection"]
      ELSE g1

JoinGameState(w) ==
  LET joined == Append(player_list, NewPlayer(w))
      g1 == [game_state EXCEPT
               !.prize_pool = @ + game_state.entry_fee,
               !.treasury_fee = @ + FeeAmount(game_state.entry_fee)]
  IN  IF Len(joined) = game_state.max_players
      THEN [g1 EXCEPT !.state = "NumberSelection", !.started_at = now]
      ELSE g1

JoinGame(w) ==
  /\ JoinGameError(w) = "Ok"
  /\ balances' = Transfer(w, EscrowAccount, game_state.entry_fee)
  /\ player_list' = Append(player_list, NewPlayer(w))
  /\ game_state' = JoinGameState(w)
  /\ UNCHANGED <<vrf_results, treasury_state, now, call, raffleVars>>

\* -------------------------------------------------------------- select_number
\* select_number without its number-taken check
SelectNumberErrorNoTakenCheck(w, number) ==
  IF game_state.state # "NumberSelection" THEN "InvalidGameState"
  ELSE IF ~(number >= game_state.number_range.min /\ number <= game_state.number_range.max)
    THEN "NumberOutOfRange"
  ELSE IF FindPlayer(w) = 0 THEN "PlayerNotInGame"
  ELSE IF player_list[FindPlayer(w)].selected_number # None THEN "NumberAlreadySelected"
  ELSE IF player_list[FindPlayer(w)].eliminated_round # None THEN "PlayerEliminated"
  ELSE "Ok"

\* select_number without its already-selected check
SelectNumberErrorNoSelectedCheck(w, number) ==
  IF game_state.state # "NumberSelection" THEN "InvalidGameState"
  ELSE IF ~(number >= game_state.number_range.min /\ number <= game_state.number_range.max)
    THEN "NumberOutOfRange"
  ELSE IF FindPlayer(w) = 0 THEN "PlayerNotInGame"
  ELSE IF player_list[FindPlayer(w)].eliminated_round # None THEN "PlayerEliminated"
  ELSE IF \E i \in 1..Len(player_list) :
            player_list[i].selected_number = number /\ player_list[i].wallet # w
    THEN "NumberAlreadyTaken"
  ELSE "Ok"

SelectNumberError(w, number) ==
  IF game_state.state # "NumberSelection" THEN "InvalidGameState"
  ELSE IF ~(number >= game_state.number_range.min /\ number <= game_state.number_range.max)
    THEN "NumberOutOfRange"
  ELSE IF FindPlayer(w) = 0 THEN "PlayerNotInGame"
  ELSE IF player_list[FindPlayer(w)].selected_number # None THEN "NumberAlreadySelected"
  ELSE IF player_list[FindPlayer(w)].eliminated_round # None THEN "PlayerEliminated"
  ELSE IF \E i \in 1..Len(player_list) :
            player_list[i].selected_number = number /\ player_list[i].wallet # w
    THEN "NumberAlreadyTaken"
  ELSE "Ok"

\* AllNumbersSelectedEvent is emitted iff players_with_numbers == active_players
AllNumbersSelected(players) ==
  Cardinality({i \in 1..Len(players) :
                 players[i].eliminated_round = None /\ players[i].selected_number # None})
    = Cardinality({i \in 1..Len(players) : players[i].eliminated_round = None})

\* select_number that starts the game once every active player has a number
SelectNumberAutoStart(w, number) ==
  /\ SelectNumberError(w, number) = "Ok"
  /\ player_list' = [player_list EXCEPT ![FindPlayer(w)].selected_number = number]
  /\ game_state' =
       IF AllNumbersSelected([player_list EXCEPT ![FindPlayer(w)].selected_number = number])
       THEN [game_state EXCEPT !.state = "Playing"]
       ELSE game_state
  /\ UNCHANGED <<vrf_results, treasury_state, balances, now, call, raffleVars>>

SelectNumber(w, number) ==
  /\ SelectNumberError(w, number) = "Ok"
  /\ player_list' = [player_list EXCEPT ![FindPlayer(w)].selected_number = number]
  /\ UNCHANGED <<game_state, vrf_results, treasury_state, balances, now, call, raffleVars>>

\* ----------------------------------------------- NumberSelection -> Playing
\* The authority's separate start action (section 4.1 of the specification).
StartGameError(caller) ==
  IF caller # game_state.authority THEN "Unauthorized"
  ELSE IF game_state.state # "NumberSelection" THEN "InvalidGameState"
  ELSE "Ok"

StartGame(caller) ==
  /\ StartGameError(caller) = "Ok"
  /\ game_state' = [game_state EXCEPT !.state = "Playing"]
  /\ UNCHANGED <<player_list, vrf_results, treasury_state, balances, now, call, raffleVars>>

\* ---------------------------------------------------------------- cancel_game
MAX_REASON_LEN == 200
SELECTION_TIMEOUT == 86400

\* cancel_game that treats the deadline instant itself as past
CancelGameErrorDeadlineInclusive(caller, reason_len) ==
  IF caller # game_state.authority THEN "Unauthorized"
  ELSE IF game_state.state \in {"Completed", "Cancelled", "Distributing"} THEN "CannotCancelGame"
  ELSE IF ~(reason_len <= MAX_REASON_LEN) THEN "ReasonTooLong"
  ELSE IF game_state.state \in {"Created", "Joining"}
    THEN IF player_list # <<>> /\ ~(now >= game_state.payment_deadline)
         THEN "CannotCancelActiveGame" ELSE "Ok"
  ELSE IF game_state.state = "NumberSelection"
    THEN IF ~(now > (IF game_state.started_at = None THEN 0 ELSE game_state.started_at)
                      + SELECTION_TIMEOUT)
         THEN "CannotCancelActiveGame" ELSE "Ok"
  ELSE IF game_state.state = "Playing" THEN "Ok"
  ELSE "CannotCancelGame"

\* cancel_game that treats the instant the selection timeout ends as past
CancelGameErrorTimeoutInclusive(caller, reason_len) ==
  IF caller # game_state.authority THEN "Unauthorized"
  ELSE IF game_state.state \in {"Completed", "Cancelled", "Distributing"} THEN "CannotCancelGame"
  ELSE IF ~(reason_len <= MAX_REASON_LEN) THEN "ReasonTooLong"
  ELSE IF game_state.state \in {"Created", "Joining"}
    THEN IF player_list # <<>> /\ ~(now > game_state.payment_deadline)
         THEN "CannotCancelActiveGame" ELSE "Ok"
  ELSE IF game_state.state = "NumberSelection"
    THEN IF ~(now >= (IF game_state.started_at = None THEN 0 ELSE game_state.started_at)
                      + SELECTION_TIMEOUT)
         THEN "CannotCancelActiveGame" ELSE "Ok"
  ELSE IF game_state.state = "Playing" THEN "Ok"
  ELSE "CannotCancelGame"

\* cancel_game that admits a game in Distributing like one in Playing
CancelGameErrorSettled(caller, reason_len) ==
  IF caller # game_state.authority THEN "Unauthorized"
  ELSE IF game_state.state \in {"Completed", "Cancelled"} THEN "CannotCancelGame"
  ELSE IF ~(reason_len <= MAX_REASON_LEN) THEN "ReasonTooLong"
  ELSE IF game_state.state \in {"Created", "Joining"}
    THEN IF player_list # <<>> /\ ~(now > game_state.payment_deadline)
         THEN "CannotCancelActiveGame" ELSE "Ok"
  ELSE IF game_state.state = "NumberSelection"
    THEN IF ~(now > (IF game_state.started_at = None THEN 0 ELSE game_state.started_at)
                      + SELECTION_TIMEOUT)
         THEN "CannotCancelActiveGame" ELSE "Ok"
  ELSE IF game_state.state \in {"Playing", "Distributing"} THEN "Ok"
  ELSE "CannotCancelGame"

CancelGameError(caller, reason_len) ==
  IF caller # game_state.authority THEN "Unauthorized"
  ELSE IF game_state.state \in {"Completed", "Cancelled", "Distributing"} THEN "CannotCancelGame"
  ELSE IF ~(reason_len <= MAX_REASON_LEN) THEN "ReasonTooLong"
  ELSE IF game_state.state \in {"Created", "Joining"}
    THEN IF player_list # <<>> /\ ~(now > game_state.payment_deadline)
         THEN "CannotCancelActiveGame" ELSE "Ok"
  ELSE IF game_state.state = "NumberSelection"
    THEN IF ~(now > (IF game_state.started_at = None THEN 0 ELSE game_state.started_at)
                      + SELECTION_TIMEOUT)
         THEN "CannotCancelActiveGame" ELSE "Ok"
  ELSE IF game_state.state = "Playing" THEN "Ok"
  ELSE "CannotCancelGame"

\* cancel_game that moves the accrued treasury fee out of escrow
CancelGameTakesFee(caller, reason_len) ==
  /\ CancelGameError(caller, reason_len) = "Ok"
  /\ game_state' = [game_state EXCEPT !.state = "Cancelled", !.completed_at = now]
  /\ balances' = Transfer(EscrowAccount, TreasuryTokenAccount, game_state.treasury_fee)
  /\ UNCHANGED <<player_list, vrf_results, treasury_state, now, call, raffleVars>>

CancelGame(caller, reason_len) ==
  /\ CancelGameError(caller, reason_len) = "Ok"
  /\ game_state' = [game_state EXCEPT !.state = "Cancelled", !.completed_at = now]
  /\ UNCHANGED <<player_list, vrf_results, treasury_state, balances, now, call, raffleVars>>

\* ------------------------------------------------------------- request_refund
\* request_refund whose state constraint also admits a settled game
RequestRefundErrorSettledToo(w) ==
  IF game_state.state \notin {"Cancelled", "Distributing"} THEN "GameNotCancelled"
  ELSE IF FindPlayer(w) = 0 THEN "PlayerNotInGame"
  ELSE IF player_list[FindPlayer(w)].prize_claimed THEN "RefundAlreadyProcessed"
  ELSE IF ~TransferOk(EscrowAccount, game_state.entry_fee) THEN "InsufficientFunds"
  ELSE "Ok"

\* request_refund without its state constraint
RequestRefundErrorNoConstraint(w) ==
  IF FindPlayer(w) = 0 THEN "PlayerNotInGame"
  ELSE IF player_list[FindPlayer(w)].prize_claimed THEN "RefundAlreadyProcessed"
  ELSE IF ~TransferOk(EscrowAccount, game_state.entry_fee) THEN "InsufficientFunds"
  ELSE "Ok"

\* request_refund without its already-processed check
RequestRefundErrorNoFlagCheck(w) ==
  IF game_state.state # "Cancelled" THEN "GameNotCancelled"
  ELSE IF FindPlayer(w) = 0 THEN "PlayerNotInGame"
  ELSE IF ~TransferOk(EscrowAccount, game_state.entry_fee) THEN "InsufficientFunds"
  ELSE "Ok"

RequestRefundError(w) ==
  IF game_state.state # "Cancelled" THEN "GameNotCancelled"
  ELSE IF FindPlayer(w) = 0 THEN "PlayerNotInGame"
  ELSE IF player_list[FindPlayer(w)].prize_claimed THEN "RefundAlreadyProcessed"
  ELSE IF ~TransferOk(EscrowAccount, game_state.entry_fee) THEN "InsufficientFunds"
  ELSE "Ok"

RequestRefund(w) ==
  /\ RequestRefundError(w) = "Ok"
  /\ balances' = Transfer(EscrowAccount, w, game_state.entry_fee)
  /\ player_list' = [player_list EXCEPT ![FindPlayer(w)].prize_claimed = TRUE]
  /\ UNCHANGED <<game_state, vrf_results, treasury_state, now, call, raffleVars>>

\* --------------------------------------------------- randomness: drawn number
\* range = (max - min + 1) as u64 is computed in u8 before the cast
RangeWidth(min, max) == max - min + 1

\* generate_number_from_random aborts when max - min + 1 does not fit u8:
\* with overflow checks the addition panics, without them it wraps to 0 and
\* random_u64 % 0 panics.  (Inputs have min <= max.)
GenerateNumberPanics(min, max) == RangeWidth(min, max) > 255

\* u64::from_le_bytes(bytes) % range: byte i (from 1) weighs 256^(i-1).  The
\* u64 exceeds the model checker's integers, so the value is reduced modulo
\* range byte by byte, which yields the same remainder.
RECURSIVE FromLeBytesMod(_, _)
FromLeBytesMod(bytes, range) ==
  IF bytes = <<>> THEN 0
  ELSE (Head(bytes) + 256 * FromLeBytesMod(Tail(bytes), range)) % range

\* (random_u64 % range) as u8 + min, of the first 8 bytes
DrawnNumber(random_value, min, max) ==
  U8(FromLeBytesMod(SubSeq(random_value, 1, 8), RangeWidth(min, max))) + min

\* Upper bound of the low byte of the random values the oracle supplies.
MaxRandomByte == 1
\* Random values: the first 8 bytes (bytes 8..31 are never read).
RandomValues ==
  {<<b, 0, 0, 0, 0, 0, 0, 0>> : b \in 0..MaxRandomByte}
    \cup {<<b, 3, 0, 0, 0, 0, 0, 0>> : b \in 0..MaxRandomByte}

NewVrfResult(round, drawn) == [round |-> round, drawn_number |-> drawn, used |-> FALSE]

\* ------------------------------------------------------------------ submit_vrf
MIN_PROOF_LEN == 64
MAX_PROOF_LEN == 256

\* submit_vrf without its round check
SubmitVrfErrorNoRoundCheck(caller, round, proof_len) ==
  IF round \in DOMAIN vrf_results THEN "AccountAlreadyInUse"
  ELSE IF caller # game_state.vrf_oracle THEN "Unauthorized"
  ELSE IF game_state.state # "Playing" THEN "InvalidGameState"
  ELSE IF ~(proof_len >= MIN_PROOF_LEN /\ proof_len <= MAX_PROOF_LEN) THEN "InvalidVrfProof"
  ELSE "Ok"

\* The accounts are loaded, and the result account of the round created
\* (init), before the constraints of the struct are evaluated.
SubmitVrfError(caller, round, proof_len) ==
  IF round \in DOMAIN vrf_results THEN "AccountAlreadyInUse"
  ELSE IF caller # game_state.vrf_oracle THEN "Unauthorized"
  ELSE IF game_state.state # "Playing" THEN "InvalidGameState"
  ELSE IF ~(round = game_state.current_round + 1) THEN "InvalidRound"
  ELSE IF ~(proof_len >= MIN_PROOF_LEN /\ proof_len <= MAX_PROOF_LEN) THEN "InvalidVrfProof"
  ELSE "Ok"

\* submit_vrf that advances the round without recording the drawn number
SubmitVrfStateNoPush(round, drawn) ==
  [game_state EXCEPT !.current_round = round]

\* game_state.current_round = round; game_state.drawn_numbers.push(drawn_number)
SubmitVrfState(round, drawn) ==
  [game_state EXCEPT !.current_round = round, !.drawn_numbers = Append(@, drawn)]

SubmitVrf(caller, round, random_value, proof_len) ==
  LET drawn == DrawnNumber(random_value, game_state.number_range.min,
                           game_state.number_range.max)
  IN  /\ SubmitVrfError(caller, round, proof_len) = "Ok"
      /\ ~GenerateNumberPanics(game_state.number_range.min, game_state.number_range.max)
      /\ vrf_results' = vrf_results @@ (round :> NewVrfResult(round, drawn))
      /\ game_state' = SubmitVrfState(round, drawn)
      /\ UNCHANGED <<player_list, treasury_state, balances, now, call, raffleVars>>

\* ------------------------------------------------------------ request_orao_vrf
\* cpi_ok: whether the oracle service accepts the request (external)
RequestOraoVrfError(round, cpi_ok) ==
  IF game_state.state # "Playing" THEN "InvalidGameState"
  ELSE IF ~(round = game_state.current_round + 1) THEN "InvalidRound"
  ELSE IF ~cpi_ok THEN "OraoRequestFailed"
  ELSE "Ok"

RequestOraoVrf(round, cpi_ok) ==
  /\ RequestOraoVrfError(round, cpi_ok) = "Ok"
  /\ game_state' = [game_state EXCEPT !.vrf_request_pending = TRUE, !.pending_round = round]
  /\ UNCHANGED <<player_list, vrf_results, treasury_state, balances, now, call, raffleVars>>

\* ------------------------------------------------------------ fulfill_orao_vrf
\* randomness: the oracle service's randomness account when it is loaded
\* (external): "absent" before any request, "unfulfilled" while the request
\* waits, "fulfilled" once the value is available.  The randomness account is
\* loaded and the result account created (init) before the constraints run.
RandomnessInputs == {"absent", "unfulfilled", "fulfilled"}

\* fulfill_orao_vrf whose result account is not freshly created (init_if_needed)
FulfillOraoVrfErrorNoInit(round, randomness) ==
  IF randomness = "absent" THEN "AccountNotInitialized"
  ELSE IF game_state.state # "Playing" THEN "InvalidGameState"
  ELSE IF ~game_state.vrf_request_pending THEN "NoVrfRequestPending"
  ELSE IF ~(game_state.pending_round = round) THEN "InvalidRound"
  ELSE IF randomness # "fulfilled" THEN "VrfNotFulfilled"
  ELSE "Ok"

\* fulfill_orao_vrf without its pending-request constraint
FulfillOraoVrfErrorNoPendingCheck(round, randomness) ==
  IF randomness = "absent" THEN "AccountNotInitialized"
  ELSE IF round \in DOMAIN vrf_results THEN "AccountAlreadyInUse"
  ELSE IF game_state.state # "Playing" THEN "InvalidGameState"
  ELSE IF ~(game_state.pending_round = round) THEN "InvalidRound"
  ELSE IF randomness # "fulfilled" THEN "VrfNotFulfilled"
  ELSE "Ok"

FulfillOraoVrfError(round, randomness) ==
  IF randomness = "absent" THEN "AccountNotInitialized"
  ELSE IF round \in DOMAIN vrf_results THEN "AccountAlreadyInUse"
  ELSE IF game_state.state # "Playing" THEN "InvalidGameState"
  ELSE IF ~game_state.vrf_request_pending THEN "NoVrfRequestPending"
  ELSE IF ~(game_state.pending_round = round) THEN "InvalidRound"
  ELSE IF randomness # "fulfilled" THEN "VrfNotFulfilled"
  ELSE "Ok"

FulfillOraoVrfState(round, drawn) ==
  [game_state EXCEPT
     !.current_round = round,
     !.drawn_numbers = Append(@, drawn),
     !.vrf_request_pending = FALSE,
     !.pending_round = 0]

FulfillOraoVrf(round, randomness, random_value) ==
  LET drawn == DrawnNumber(random_value, game_state.number_range.min,
                           game_state.number_range.max)
  IN  /\ FulfillOraoVrfError(round, randomness) = "Ok"
      /\ ~GenerateNumberPanics(game_state.number_range.min, game_state.number_range.max)
      /\ vrf_results' = vrf_results @@ (round :> NewVrfResult(round, drawn))
      /\ game_state' = FulfillOraoVrfState(round, drawn)
      /\ UNCHANGED <<player_list, treasury_state, balances, now, call, raffleVars>>

\* --------------------------------------------------------- process_elimination
\* The result account of the round is loaded with the other accounts, before
\* the constraints of the struct are evaluated.
\* process_elimination without the constraint that the result is unused
ProcessEliminationErrorNoUsedCheck(caller, round) ==
  IF round \notin DOMAIN vrf_results THEN "AccountNotInitialized"
  ELSE IF caller # game_state.authority THEN "Unauthorized"
  ELSE IF game_state.state # "Playing" THEN "InvalidGameState"
  ELSE IF ~(round = vrf_results[round].round /\ round = game_state.current_round)
    THEN "InvalidRound"
  ELSE "Ok"

\* process_elimination without the authority constraint on the signer
ProcessEliminationErrorAnyCaller(caller, round) ==
  IF round \notin DOMAIN vrf_results THEN "AccountNotInitialized"
  ELSE IF game_state.state # "Playing" THEN "InvalidGameState"
  ELSE IF vrf_results[round].used THEN "VrfAlreadyUsed"
  ELSE IF ~(round = vrf_results[round].round /\ round = game_state.current_round)
    THEN "InvalidRound"
  ELSE "Ok"

\* process_elimination that does not compare the round with current_round
ProcessEliminationErrorAnyRound(caller, round) ==
  IF round \notin DOMAIN vrf_results THEN "AccountNotInitialized"
  ELSE IF caller # game_state.authority THEN "Unauthorized"
  ELSE IF game_state.state # "Playing" THEN "InvalidGameState"
  ELSE IF vrf_results[round].used THEN "VrfAlreadyUsed"
  ELSE IF ~(round = vrf_results[round].round) THEN "InvalidRound"
  ELSE "Ok"

ProcessEliminationError(caller, round) ==
  IF round \notin DOMAIN vrf_results THEN "AccountNotInitialized"
  ELSE IF caller # game_state.authority THEN "Unauthorized"
  ELSE IF game_state.state # "Playing" THEN "InvalidGameState"
  ELSE IF vrf_results[round].used THEN "VrfAlreadyUsed"
  ELSE IF ~(round = vrf_results[round].round /\ round = game_state.current_round)
    THEN "InvalidRound"
  ELSE "Ok"

\* elimination loop that does not skip players eliminated in an earlier round
EliminateNoSkip(players, drawn_number, round) ==
  [i \in 1..Len(players) |->
     IF players[i].selected_number # None /\ players[i].selected_number = drawn_number
       THEN [players[i] EXCEPT !.eliminated_round = round]
     ELSE players[i]]

\* the elimination loop over player_list.players
Eliminate(players, drawn_number, round) ==
  [i \in 1..Len(players) |->
     IF players[i].eliminated_round # None THEN players[i]
     ELSE IF players[i].selected_number # None /\ players[i].selected_number = drawn_number
       THEN [players[i] EXCEPT !.eliminated_round = round]
     ELSE players[i]]

\* GameReadyToCompleteEvent is emitted iff remaining_players <= winner_count
ShouldComplete(players) ==
  Cardinality({i \in 1..Len(players) : players[i].eliminated_round = None})
    <= game_state.winner_count

ProcessElimination(caller, round) ==
  /\ ProcessEliminationError(caller, round) = "Ok"
  /\ vrf_results' = [vrf_results EXCEPT ![round].used = TRUE]
  /\ player_list' = Eliminate(player_list, vrf_results[round].drawn_number, round)
  /\ UNCHANGED <<game_state, treasury_state, balances, now, call, raffleVars>>

\* --------------------------------------------------------------- complete_game
\* actual_winner_count = winners.len().min(winner_count)
ActualWinnerCount == 
  IF Cardinality(ActiveIdx) < game_state.winner_count
  THEN Cardinality(ActiveIdx) ELSE game_state.winner_count

\* prize computed on the whole pool, without deducting the treasury fee
PrizePerWinnerGross(prize_pool, treasury_fee, winner_count) ==
  prize_pool \div winner_count

\* calculate_prize_distribution: (prize_pool - treasury_fee) / winner_count
PrizePerWinner(prize_pool, treasury_fee, winner_count) ==
  (prize_pool - treasury_fee) \div winner_count

\* complete_game whose state constraint also admits a cancelled game
CompleteGameErrorCancelledToo(caller) ==
  IF caller # game_state.authority THEN "Unauthorized"
  ELSE IF game_state.state \notin {"Playing", "Cancelled"} THEN "InvalidGameState"
  ELSE IF ActiveIdx = {} THEN "NoWinnersFound"
  ELSE IF game_state.prize_pool < game_state.treasury_fee THEN "ArithmeticOverflow"
  ELSE IF ActualWinnerCount = 0 THEN "ArithmeticOverflow"
  ELSE IF ~TransferOk(EscrowAccount, game_state.treasury_fee) THEN "InsufficientFunds"
  ELSE "Ok"

CompleteGameError(caller) ==
  IF caller # game_state.authority THEN "Unauthorized"
  ELSE IF game_state.state # "Playing" THEN "InvalidGameState"
  ELSE IF ActiveIdx = {} THEN "NoWinnersFound"
  ELSE IF game_state.prize_pool < game_state.treasury_fee THEN "ArithmeticOverflow"
  ELSE IF ActualWinnerCount = 0 THEN "ArithmeticOverflow"
  ELSE IF ~TransferOk(EscrowAccount, game_state.treasury_fee) THEN "InsufficientFunds"
  ELSE "Ok"

\* complete_game that marks every remaining player, ignoring actual_winner_count
MarkWinnersAllActive(players, count, prize) ==
  [i \in 1..Len(players) |->
     IF players[i].eliminated_round = None
     THEN [players[i] EXCEPT !.is_winner = TRUE, !.prize_amount = prize]
     ELSE players[i]]

\* winners.iter_mut().enumerate(): the first actual_winner_count active players
MarkWinners(players, count, prize) ==
  [i \in 1..Len(players) |->
     IF /\ players[i].eliminated_round = None
        /\ Cardinality({j \in 1..(i - 1) : players[j].eliminated_round = None}) < count
     THEN [players[i] EXCEPT !.is_winner = TRUE, !.prize_amount = prize]
     ELSE players[i]]

\* complete_game that books the fee as pending without booking it as collected
CompleteGameNoCollected(caller) ==
  /\ CompleteGameError(caller) = "Ok"
  /\ player_list' = MarkWinners(player_list, ActualWinnerCount,
                      PrizePerWinner(game_state.prize_pool, game_state.treasury_fee,
                                     ActualWinnerCount))
  /\ balances' = Transfer(EscrowAccount, TreasuryTokenAccount, game_state.treasury_fee)
  /\ treasury_state' = [treasury_state EXCEPT
                          !.pending_withdrawal = @ + game_state.treasury_fee]
  /\ game_state' = [game_state EXCEPT !.state = "Distributing", !.completed_at = now]
  /\ UNCHANGED <<vrf_results, now, call, raffleVars>>
\* complete_game that leaves the game in Playing
CompleteGameKeepsPlaying(caller) ==
  /\ CompleteGameError(caller) = "Ok"
  /\ player_list' = MarkWinners(player_list, ActualWinnerCount,
                      PrizePerWinner(game_state.prize_pool, game_state.treasury_fee,
                                     ActualWinnerCount))
  /\ balances' = Transfer(EscrowAccount, TreasuryTokenAccount, game_state.treasury_fee)
  /\ treasury_state' = [treasury_state EXCEPT
                          !.total_collected = @ + game_state.treasury_fee,
                          !.pending_withdrawal = @ + game_state.treasury_fee]
  /\ game_state' = [game_state EXCEPT !.completed_at = now]
  /\ UNCHANGED <<vrf_results, now, call, raffleVars>>

CompleteGame(caller) ==
  /\ CompleteGameError(caller) = "Ok"
  /\ player_list' = MarkWinners(player_list, ActualWinnerCount,
                      PrizePerWinner(game_state.prize_pool, game_state.treasury_fee,
                                     ActualWinnerCount))
  /\ balances' = Transfer(EscrowAccount, TreasuryTokenAccount, game_state.treasury_fee)
  /\ treasury_state' = [treasury_state EXCEPT
                          !.total_collected = @ + game_state.treasury_fee,
                          !.pending_withdrawal = @ + game_state.treasury_fee]
  /\ game_state' = [game_state EXCEPT !.state = "Distributing", !.completed_at = now]
  /\ UNCHANGED <<vrf_results, now, call, raffleVars>>

\* ----------------------------------------------------------------- claim_prize
\* claim_prize without its already-claimed check
ClaimPrizeErrorNoClaimedCheck(w) ==
  IF game_state.state # "Distributing" THEN "InvalidGameState"
  ELSE IF FindPlayer(w) = 0 THEN "PlayerNotInGame"
  ELSE IF ~player_list[FindPlayer(w)].is_winner THEN "NotAWinner"
  ELSE IF ~(player_list[FindPlayer(w)].prize_amount > 0) THEN "NoPrizeToCliam"
  ELSE IF ~TransferOk(EscrowAccount, player_list[FindPlayer(w)].prize_amount)
    THEN "InsufficientFunds"
  ELSE "Ok"

ClaimPrizeError(w) ==
  IF game_state.state # "Distributing" THEN "InvalidGameState"
  ELSE IF FindPlayer(w) = 0 THEN "PlayerNotInGame"
  ELSE IF ~player_list[FindPlayer(w)].is_winner THEN "NotAWinner"
  ELSE IF player_list[FindPlayer(w)].prize_claimed THEN "PrizeAlreadyClaimed"
  ELSE IF ~(player_list[FindPlayer(w)].prize_amount > 0) THEN "NoPrizeToCliam"
  ELSE IF ~TransferOk(EscrowAccount, player_list[FindPlayer(w)].prize_amount)
    THEN "InsufficientFunds"
  ELSE "Ok"

\* claim_prize that pays without marking the prize as claimed
ClaimPrizeKeepsFlag(w) ==
  /\ ClaimPrizeError(w) = "Ok"
  /\ balances' = Transfer(EscrowAccount, w, player_list[FindPlayer(w)].prize_amount)
  /\ UNCHANGED <<player_list, game_state, vrf_results, treasury_state, now, call, raffleVars>>

ClaimPrize(w) ==
  /\ ClaimPrizeError(w) = "Ok"
  /\ balances' = Transfer(EscrowAccount, w, player_list[FindPlayer(w)].prize_amount)
  /\ player_list' = [player_list EXCEPT ![FindPlayer(w)].prize_claimed = TRUE]
  /\ UNCHANGED <<game_state, vrf_results, treasury_state, now, call, raffleVars>>

\* ----------------------------------------------------------- withdraw_treasury
\* amount: None (withdraw all pending) or Some(amt)
WithdrawalAmount(amount) ==
  IF amount = None THEN treasury_state.pending_withdrawal ELSE amount

WithdrawTreasuryErrorNoAmountCheck(caller, amount) ==
  IF caller # treasury_state.authority THEN "Unauthorized"
  ELSE IF ~(WithdrawalAmount(amount) > 0) THEN "NoFundsToWithdraw"
  ELSE IF ~TransferOk(TreasuryTokenAccount, WithdrawalAmount(amount)) THEN "InsufficientFunds"
  ELSE "Ok"

WithdrawTreasuryError(caller, amount) ==
  IF caller # treasury_state.authority THEN "Unauthorized"
  ELSE IF amount # None /\ ~(amount <= treasury_state.pending_withdrawal)
    THEN "InsufficientTreasuryBalance"
  ELSE IF ~(WithdrawalAmount(amount) > 0) THEN "NoFundsToWithdraw"
  ELSE IF ~TransferOk(TreasuryTokenAccount, WithdrawalAmount(amount)) THEN "InsufficientFunds"
  ELSE "Ok"

WithdrawTreasury(caller, amount) ==
  /\ WithdrawTreasuryError(caller, amount) = "Ok"
  /\ balances' = Transfer(TreasuryTokenAccount, DestinationTokenAccount, WithdrawalAmount(amount))
  /\ treasury_state' = [treasury_state EXCEPT
                          !.pending_withdrawal = @ - WithdrawalAmount(amount)]
  /\ UNCHANGED <<game_state, player_list, vrf_results, now, call, raffleVars>>


\* ------------------------------------------- generate_number_from_random alone
\* The drawn-number function applied to inputs of its own: call holds the
\* arguments and, once the function has run, whether it aborted and what it
\* returned.
DrawBytes ==
  { <<0, 0, 0, 0, 0, 0, 0, 0>>, <<42, 42, 42, 42, 42, 42, 42, 42>>,
    <<255, 0, 0, 0, 0, 0, 0, 0>>, <<0, 1, 0, 0, 0, 0, 0, 0>>,
    <<7, 0, 0, 0, 0, 0, 0, 128>>, <<255, 255, 255, 255, 255, 255, 255, 255>> }
DrawEnds == {0, 1, 7, 200, 255}

InitDraw ==
  /\ \E b \in DrawBytes, lo \in DrawEnds, hi \in DrawEnds :
       /\ lo <= hi
       /\ call = [fn |-> "generate_number_from_random", random_bytes |-> b,
                  min |-> lo, max |-> hi, done |-> FALSE, panicked |-> FALSE,
                  result |-> None]
  /\ now = 0
  /\ game_state = CreateGame(25, 2, 1, PaymentDeadlineMinutes, 0)
  /\ player_list = <<>>
  /\ vrf_results = <<>>
  /\ treasury_state = InitializeTreasury
  /\ NoRaffleYet
  /\ balances = [a \in TokenAccounts |-> IF a \in Wallets THEN InitialBalance ELSE 0]

GenerateNumber ==
  /\ call.fn = "generate_number_from_random"
  /\ ~call.done
  /\ call' = [call EXCEPT
       !.done = TRUE,
       !.panicked = GenerateNumberPanics(call.min, call.max),
       !.result = IF GenerateNumberPanics(call.min, call.max) THEN None
                  ELSE DrawnNumber(call.random_bytes, call.min, call.max)]
  /\ UNCHANGED <<game_state, player_list, vrf_results, treasury_state, balances, now, raffleVars>>

NextDraw == GenerateNumber
SpecDraw == InitDraw /\ [][NextDraw]_vars

\* ------------------------------------------------ calculate_treasury_fee alone
\* A u64 is held as four 16-bit limbs, least significant first, so that the
\* 64-bit product and its overflow are computed exactly.  MulLimbs gives the
\* full product of a u64 and a u8 as five limbs; DivLimbs is long division of
\* five limbs by a small divisor.
MulLimbs(x, p) ==
  LET m1 == x[1] * p
      m2 == x[2] * p + (m1 \div 65536)
      m3 == x[3] * p + (m2 \div 65536)
      m4 == x[4] * p + (m3 \div 65536)
  IN  <<m1 % 65536, m2 % 65536, m3 % 65536, m4 % 65536, m4 \div 65536>>

DivLimbs(x, d) ==
  LET c5 == x[5]
      c4 == (c5 % d) * 65536 + x[4]
      c3 == (c4 % d) * 65536 + x[3]
      c2 == (c3 % d) * 65536 + x[2]
      c1 == (c2 % d) * 65536 + x[1]
  IN  <<c1 \div d, c2 \div d, c3 \div d, c4 \div d, c5 \div d>>

\* u64::checked_mul: no value when the product does not fit 64 bits
CheckedMulOverflows(amount, factor) == MulLimbs(amount, factor)[5] > 0

\* calculate_treasury_fee(amount, fee_percentage): err is the ArithmeticOverflow
\* return; value is the fee as five limbs (the fifth is 0 for a u64)
CalculateTreasuryFee(amount, fee_percentage) ==
  IF CheckedMulOverflows(amount, fee_percentage)
  THEN [err |-> TRUE, value |-> <<0, 0, 0, 0, 0>>]
  ELSE [err |-> FALSE, value |-> DivLimbs(MulLimbs(amount, fee_percentage), 100)]

FeeAmounts ==
  { <<1, 0, 0, 0>>, <<99, 0, 0, 0>>, <<1000, 0, 0, 0>>, <<0, 1, 0, 0>>,
    <<4096, 54437, 232, 0>>, <<36700, 62914, 23592, 655>>,
    <<36701, 62914, 23592, 655>>, <<7865, 60293, 47185, 1310>>,
    <<0, 0, 0, 32768>>, <<65535, 65535, 65535, 65535>> }
FeePercentages == {0, 1, 10, 33, 50, 99, 100}

InitFee ==
  /\ \E a \in FeeAmounts, p \in FeePercentages :
       call = [fn |-> "calculate_treasury_fee", amount |-> a, fee_percentage |-> p,
               done |-> FALSE, err |-> FALSE, result |-> <<0, 0, 0, 0, 0>>]
  /\ now = 0
  /\ game_state = CreateGame(25, 2, 1, PaymentDeadlineMinutes, 0)
  /\ player_list = <<>>
  /\ vrf_results = <<>>
  /\ treasury_state = InitializeTreasury
  /\ NoRaffleYet
  /\ balances = [a \in TokenAccounts |-> IF a \in Wallets THEN InitialBalance ELSE 0]

CalculateTreasuryFeeCall ==
  /\ call.fn = "calculate_treasury_fee"
  /\ ~call.done
  /\ call' = [call EXCEPT
       !.done = TRUE,
       !.err = CalculateTreasuryFee(call.amount, call.fee_percentage).err,
       !.result = CalculateTreasuryFee(call.amount, call.fee_percentage).value]
  /\ UNCHANGED <<game_state, player_list, vrf_results, treasury_state, balances, now, raffleVars>>

NextFee == CalculateTreasuryFeeCall
SpecFee == InitFee /\ [][NextFee]_vars

\* ================================================================ raffle-v4
\* One raffle id is followed.  Amounts are lamports, held as u64.  The
\* accounts of an instruction are loaded, and its init accounts created at the
\* payer's expense, in the order of the accounts struct before any constraint
\* or handler check runs; the rent of a created account leaves the payer's
\* balance, and the rent of the escrow account stays in the escrow balance
\* (the balances of the raffle and ticket accounts, which nothing reads, are
\* not followed).  A rejected instruction changes nothing: each handler has an
\* error operator giving the first failing check.
\*
\* overflow_checks (every operator that computes with an unchecked +, - or *
\* on u64): whether the program is built with arithmetic overflow checks.
\* With them an overflowing operation panics and the instruction fails with
\* "Panic"; without them the result wraps modulo 2^64.  Such an operator
\* yields a record: panic tells whether the computation panics, value is the
\* result (the wrapped one after an overflow).
VrfRequestKey == MaxPlayersCfg + 17

\* RaffleAccount::has_ended / can_be_drawn / can_distribute_prize
HasEnded(current_time) ==
  current_time >= raffle_account.end_time
    \/ raffle_account.tickets_sold >= raffle_account.max_tickets
CanBeDrawn(current_time) ==
  /\ raffle_account.status = "Active"
  /\ HasEnded(current_time)
  /\ raffle_account.tickets_sold > 0
\* can_distribute_prize without the distribution-time test
CanDistributePrizeIgnoringTime ==
  /\ raffle_account.status = "Complete"
  /\ raffle_account.winner # None
CanDistributePrize ==
  /\ raffle_account.status = "Complete"
  /\ raffle_account.winner # None
  /\ raffle_account.distributed_at = None

\* (amount * fee_rate as u64) / 10000: an unchecked product, then the division
FeeOf(amount, fee_rate, overflow_checks) ==
  LET product == MulU64(amount, fee_rate)
  IN  [ panic |-> overflow_checks /\ product.overflow,
        value |-> DivU64(product.value, 10000) ]

\* RaffleAccount::total_collected: (tickets_sold as u64) * ticket_price
TotalCollected(overflow_checks) ==
  LET product == MulU64(raffle_account.ticket_price, raffle_account.tickets_sold)
  IN  [ panic |-> overflow_checks /\ product.overflow, value |-> product.value ]

\* RaffleAccount::calculate_fee: (total_collected() * fee_rate as u64) / 10000
CalculateFee(fee_rate, overflow_checks) ==
  LET total == TotalCollected(overflow_checks)
      fee == FeeOf(total.value, fee_rate, overflow_checks)
  IN  [ panic |-> total.panic \/ fee.panic, value |-> fee.value ]

\* RaffleAccount::calculate_winner_amount:
\* total_collected() - calculate_fee(fee_rate)
CalculateWinnerAmount(fee_rate, overflow_checks) ==
  LET total == TotalCollected(overflow_checks)
      fee == CalculateFee(fee_rate, overflow_checks)
      difference == SubU64(total.value, fee.value)
  IN  [ panic |-> \/ total.panic
                  \/ fee.panic
                  \/ overflow_checks /\ difference.overflow,
        value |-> difference.value ]

\* system_program::transfer of amount between two accounts of the balances
\* bal.  accepts_source: whether the System program accepts the source
\* account (it refuses one that carries data).  The System program then
\* requires the source to hold the amount, and the credit must fit a u64.
TransferLamportsError(bal, from, to, amount, accepts_source) ==
  IF ~accepts_source THEN "System:InvalidArgument"
  ELSE IF ~GreaterOrEqual(bal[from], amount) THEN "System:ResultWithNegativeLamports"
  ELSE IF from # to /\ AddOverflows(bal[to], amount) THEN "System:ArithmeticOverflow"
  ELSE "Ok"

TransferLamports(bal, from, to, amount) ==
  [bal EXCEPT ![from] = WrappingSub(@, amount), ![to] = WrappingAdd(@, amount)]

\* ------------------------------------------------------------- create_raffle
ValidateParamsError(params) ==
  IF ~(params.title_len <= 200) THEN "TitleTooLong"
  ELSE IF ~(params.description_len <= 1000) THEN "DescriptionTooLong"
  ELSE IF ~GreaterOrEqual(params.prize_amount, U64(100000000)) THEN "PrizeAmountTooSmall"
  ELSE IF ~GreaterOrEqual(params.ticket_price, U64(1000000)) THEN "TicketPriceTooSmall"
  ELSE IF ~(params.max_tickets > 0 /\ params.max_tickets <= 10000) THEN "InvalidMaxTickets"
  ELSE IF ~(params.duration >= 3600 /\ params.duration <= 2592000) THEN "InvalidDuration"
  ELSE "Ok"

\* Rent::minimum_balance(data_len) at the rent of a Solana cluster:
\* (128 bytes of account overhead + data_len) * 3480 lamports per byte-year
\* * 2 years of exemption threshold
MinimumBalance(data_len) == U64((128 + data_len) * 3480 * 2)

\* space = 8 + RaffleAccount::LEN, 8 + EscrowAccount::LEN, 8 + TicketAccount::LEN
RaffleAccountSpace == 8 + 1461
EscrowAccountSpace == 8 + 17
TicketAccountSpace == 8 + 61

\* what init takes from the creator for the escrow account: its rent, less
\* the lamports the address already holds
EscrowInitCost ==
  IF GreaterOrEqual(lamports[RaffleEscrow], MinimumBalance(EscrowAccountSpace))
  THEN U64(0)
  ELSE WrappingSub(MinimumBalance(EscrowAccountSpace), lamports[RaffleEscrow])

\* what init takes from the creator for the raffle and the escrow account
CreateRaffleInitCost ==
  WrappingAdd(MinimumBalance(RaffleAccountSpace), EscrowInitCost)

\* the balances once init has created the raffle and the escrow account
AfterCreateRaffleInit(creator) ==
  [lamports EXCEPT ![creator] = WrappingSub(@, CreateRaffleInitCost),
                   ![RaffleEscrow] = WrappingAdd(@, EscrowInitCost)]

\* rent_exemption = Rent::get()?.minimum_balance(8 + EscrowAccount::LEN)
RentExemption == MinimumBalance(EscrowAccountSpace)

\* total_required = prize_amount.checked_add(platform_fee)?.checked_add(
\* rent_exemption)? with platform_fee = (prize_amount * fee_rate as u64) / 10000.
\* err is "Panic" (the unchecked product), "ArithmeticOverflow" (a checked
\* sum) or "Ok"; value is the sum when err is "Ok".
TotalRequired(prize_amount, fee_rate, overflow_checks) ==
  LET platform_fee == FeeOf(prize_amount, fee_rate, overflow_checks)
      with_fee == WrappingAdd(prize_amount, platform_fee.value)
  IN  IF platform_fee.panic THEN [err |-> "Panic", value |-> U64(0)]
      ELSE IF AddOverflows(prize_amount, platform_fee.value)
        THEN [err |-> "ArithmeticOverflow", value |-> U64(0)]
      ELSE IF AddOverflows(with_fee, RentExemption)
        THEN [err |-> "ArithmeticOverflow", value |-> U64(0)]
      ELSE [err |-> "Ok", value |-> WrappingAdd(with_fee, RentExemption)]

\* The handler reads creator.lamports() after init has taken the rent of the
\* two new accounts from the creator.  (end_time = current_time.checked_add(
\* duration) cannot fail: the duration is at most 2,592,000 and the clock is
\* the time of day.)
CreateRaffleError(creator, params, overflow_checks) ==
  LET total_required ==
        TotalRequired(params.prize_amount, program_state.fee_rate, overflow_checks)
      after_init == AfterCreateRaffleInit(creator)
      to_escrow == TransferLamportsError(after_init, creator, RaffleEscrow,
                                         params.prize_amount, TRUE)
  IN  IF raffle_account.initialized THEN "AccountAlreadyInUse"
      ELSE IF ~GreaterOrEqual(lamports[creator], CreateRaffleInitCost)
        THEN "System:InsufficientLamportsForRent"
      ELSE IF program_state.is_paused THEN "ProgramPaused"
      ELSE IF ValidateParamsError(params) # "Ok" THEN ValidateParamsError(params)
      ELSE IF total_required.err # "Ok" THEN total_required.err
      ELSE IF ~GreaterOrEqual(after_init[creator], total_required.value)
        THEN "InsufficientFunds"
      ELSE IF to_escrow # "Ok" THEN to_escrow
      ELSE IF AddOverflows(program_state.total_raffles, U64(1)) THEN "ArithmeticOverflow"
      ELSE "Ok"

CreateRaffle(creator, params, overflow_checks) ==
  /\ CreateRaffleError(creator, params, overflow_checks) = "Ok"
  /\ lamports' = TransferLamports(AfterCreateRaffleInit(creator), creator, RaffleEscrow,
                                  params.prize_amount)
  /\ raffle_account' =
       [ initialized |-> TRUE, creator |-> creator,
         prize_amount |-> params.prize_amount, ticket_price |-> params.ticket_price,
         max_tickets |-> params.max_tickets, tickets_sold |-> 0,
         start_time |-> now, end_time |-> now + params.duration,
         status |-> "Active", vrf_request |-> None, winner |-> None,
         winning_ticket |-> None, vrf_proof |-> None, created_at |-> now,
         drawn_at |-> None, distributed_at |-> None ]
  /\ program_state' = [program_state EXCEPT !.total_raffles = WrappingAdd(@, U64(1))]
  /\ UNCHANGED <<ticket_accounts, vrf_request_account, now, lotteryVars>>

\* ----------------------------------------------------------- purchase_ticket
\* the balances once init has created the ticket account
AfterPurchaseTicketInit(buyer) ==
  [lamports EXCEPT ![buyer] = WrappingSub(@, MinimumBalance(TicketAccountSpace))]

\* The handler reads buyer.lamports() after init has taken the rent of the
\* ticket account from the buyer.  (tickets_sold.checked_add(1) cannot fail
\* after tickets_sold < max_tickets.)
PurchaseTicketError(buyer) ==
  LET after_init == AfterPurchaseTicketInit(buyer)
      to_escrow == TransferLamportsError(after_init, buyer, RaffleEscrow,
                                         raffle_account.ticket_price, TRUE)
  IN  IF ~raffle_account.initialized THEN "AccountNotInitialized"
      ELSE IF ~GreaterOrEqual(lamports[buyer], MinimumBalance(TicketAccountSpace))
        THEN "System:InsufficientLamportsForRent"
      ELSE IF program_state.is_paused THEN "ProgramPaused"
      ELSE IF raffle_account.status # "Active" THEN "InvalidRaffleState"
      ELSE IF HasEnded(now) THEN "RaffleEnded"
      ELSE IF ~(raffle_account.tickets_sold < raffle_account.max_tickets) THEN "RaffleFull"
      ELSE IF raffle_account.creator = buyer THEN "CreatorCannotPurchase"
      ELSE IF ~GreaterOrEqual(after_init[buyer], raffle_account.ticket_price)
        THEN "InsufficientFundsForTicket"
      ELSE IF to_escrow # "Ok" THEN to_escrow
      ELSE "Ok"

PurchaseTicket(buyer) ==
  /\ PurchaseTicketError(buyer) = "Ok"
  /\ lamports' = TransferLamports(AfterPurchaseTicketInit(buyer), buyer, RaffleEscrow,
                                  raffle_account.ticket_price)
  /\ ticket_accounts' = Append(ticket_accounts,
       [owner |-> buyer, ticket_number |-> raffle_account.tickets_sold,
        purchase_time |-> now])
  /\ raffle_account' = [raffle_account EXCEPT !.tickets_sold = @ + 1]
  /\ UNCHANGED <<program_state, vrf_request_account, now, lotteryVars>>

\* -------------------------------------------------- request_winner_selection
\* cpi_ok: whether the oracle program accepts the request.
\* request_winner_selection without its status checks
RequestWinnerSelectionErrorNoStatusCheck(payer, cpi_ok) ==
  IF ~raffle_account.initialized THEN "AccountNotInitialized"
  ELSE IF vrf_request_account.has_data THEN "VRFAlreadyRequested"
  ELSE IF program_state.is_paused THEN "ProgramPaused"
  ELSE IF ~HasEnded(now) THEN "RaffleNotEnded"
  ELSE IF ~(raffle_account.tickets_sold > 0) THEN "NoTicketsSold"
  ELSE IF raffle_account.vrf_request # None THEN "VRFAlreadyRequested"
  ELSE IF ~cpi_ok THEN "VrfRequestFailed"
  ELSE "Ok"

RequestWinnerSelectionError(payer, cpi_ok) ==
  IF ~raffle_account.initialized THEN "AccountNotInitialized"
  ELSE IF vrf_request_account.has_data THEN "VRFAlreadyRequested"
  ELSE IF program_state.is_paused THEN "ProgramPaused"
  ELSE IF raffle_account.status # "Active" THEN "InvalidRaffleState"
  ELSE IF ~HasEnded(now) THEN "RaffleNotEnded"
  ELSE IF ~CanBeDrawn(now) THEN "NoTicketsSold"
  ELSE IF raffle_account.vrf_request # None THEN "VRFAlreadyRequested"
  ELSE IF ~cpi_ok THEN "VrfRequestFailed"
  ELSE "Ok"

RequestWinnerSelection(payer, cpi_ok) ==
  /\ RequestWinnerSelectionError(payer, cpi_ok) = "Ok"
  /\ vrf_request_account' = [has_data |-> TRUE, randomness |-> <<0, 0, 0, 0, 0, 0, 0, 0>>]
  /\ raffle_account' = [raffle_account EXCEPT
                          !.status = "Drawing", !.vrf_request = VrfRequestKey]
  /\ UNCHANGED <<program_state, ticket_accounts, lamports, now, lotteryVars>>

\* The oracle writes the randomness of a requested, still unfulfilled request
\* (the first 8 bytes are followed; the other bytes are zero).
RaffleRandomness ==
  {<<b, 0, 0, 0, 0, 0, 0, 0>> : b \in 1..2} \cup {<<0, 1, 0, 0, 0, 0, 0, 0>>}

OraoFulfill(randomness) ==
  /\ vrf_request_account.has_data
  /\ vrf_request_account.randomness = <<0, 0, 0, 0, 0, 0, 0, 0>>
  /\ vrf_request_account' = [vrf_request_account EXCEPT !.randomness = randomness]
  /\ UNCHANGED <<program_state, raffle_account, ticket_accounts, lamports, now, lotteryVars>>

\* -------------------------------------------------- fulfill_winner_selection
\* calculate_winning_ticket: u64::from_le_bytes(randomness[0..8]) % total_tickets
CalculateWinningTicket(randomness, total_tickets) ==
  FromLeBytesMod(SubSeq(randomness, 1, 8), total_tickets)

\* The accounts are loaded before the constraints run: a missing ticket account
\* is reported before the vrf_request constraint unwraps the raffle's request.
FulfillWinnerSelectionError(caller, winning_ticket_number) ==
  IF ~raffle_account.initialized THEN "AccountNotInitialized"
  ELSE IF (winning_ticket_number + 1) \notin DOMAIN ticket_accounts THEN "AccountNotInitialized"
  ELSE IF raffle_account.vrf_request = None THEN "UnwrapOnNone"
  ELSE IF program_state.is_paused THEN "ProgramPaused"
  ELSE IF raffle_account.status # "Drawing" THEN "InvalidRaffleState"
  ELSE IF raffle_account.winner # None THEN "WinnerAlreadySelected"
  ELSE IF ~vrf_request_account.has_data THEN "InvalidVRFProof"
  ELSE IF vrf_request_account.randomness = <<0, 0, 0, 0, 0, 0, 0, 0>> THEN "InvalidVRFProof"
  ELSE IF ~(raffle_account.tickets_sold > 0) THEN "NoTicketsSold"
  ELSE IF winning_ticket_number
            # CalculateWinningTicket(vrf_request_account.randomness,
                                     raffle_account.tickets_sold)
    THEN "InvalidTicketNumber"
  ELSE IF ~(winning_ticket_number < raffle_account.tickets_sold) THEN "InvalidTicketNumber"
  ELSE "Ok"

FulfillWinnerSelection(caller, winning_ticket_number) ==
  /\ FulfillWinnerSelectionError(caller, winning_ticket_number) = "Ok"
  /\ raffle_account' = [raffle_account EXCEPT
       !.status = "Complete",
       !.winner = ticket_accounts[winning_ticket_number + 1].owner,
       !.winning_ticket = winning_ticket_number,
       !.vrf_proof = vrf_request_account.randomness,
       !.drawn_at = now]
  /\ UNCHANGED <<program_state, ticket_accounts, vrf_request_account, lamports, now,
                 lotteryVars>>

\* ---------------------------------------------------------- distribute_prize
\* transfer_ok (distribute_prize, cancel_raffle, claim_refund): whether the
\* System program carries out a transfer whose source is the escrow account.
\* The System program of a Solana cluster refuses a source account that
\* carries data, as the escrow account does (transfer_ok = FALSE); the
\* instruction then fails with the System program's error.

\* the balances once the winner is paid (a zero amount is not transferred)
AfterWinnerPaid(winner, overflow_checks) ==
  LET winner_amount == CalculateWinnerAmount(program_state.fee_rate, overflow_checks).value
  IN  IF winner_amount # U64(0)
      THEN TransferLamports(lamports, RaffleEscrow, winner, winner_amount)
      ELSE lamports

\* the balances once the treasury is paid too
AfterFeePaid(winner, treasury, overflow_checks) ==
  LET platform_fee == CalculateFee(program_state.fee_rate, overflow_checks).value
  IN  IF platform_fee # U64(0)
      THEN TransferLamports(AfterWinnerPaid(winner, overflow_checks), RaffleEscrow,
                            treasury, platform_fee)
      ELSE AfterWinnerPaid(winner, overflow_checks)

\* distribute_prize from the computation of the amounts on: the three
\* amounts, the escrow check, the two transfers, total_volume.checked_add
DistributePrizePaymentError(winner, treasury, transfer_ok, overflow_checks) ==
  LET total_collected == TotalCollected(overflow_checks)
      platform_fee == CalculateFee(program_state.fee_rate, overflow_checks)
      winner_amount == CalculateWinnerAmount(program_state.fee_rate, overflow_checks)
      to_winner == TransferLamportsError(lamports, RaffleEscrow, winner,
                                         winner_amount.value, transfer_ok)
      to_treasury == TransferLamportsError(AfterWinnerPaid(winner, overflow_checks),
                                           RaffleEscrow, treasury, platform_fee.value,
                                           transfer_ok)
  IN  IF total_collected.panic \/ platform_fee.panic \/ winner_amount.panic THEN "Panic"
      ELSE IF ~GreaterOrEqual(lamports[RaffleEscrow], total_collected.value)
        THEN "InsufficientFunds"
      ELSE IF winner_amount.value # U64(0) /\ to_winner # "Ok" THEN to_winner
      ELSE IF platform_fee.value # U64(0) /\ to_treasury # "Ok" THEN to_treasury
      ELSE IF AddOverflows(program_state.total_volume, total_collected.value)
        THEN "ArithmeticOverflow"
      ELSE "Ok"

\* distribute_prize without the test that the prize is still undistributed
DistributePrizeErrorNoDistributedCheck(caller, winner, treasury, transfer_ok, overflow_checks) ==
  IF ~raffle_account.initialized THEN "AccountNotInitialized"
  ELSE IF raffle_account.winner = None THEN "UnwrapOnNone"
  ELSE IF winner # raffle_account.winner THEN "UnauthorizedTicketOwner"
  ELSE IF treasury # program_state.treasury THEN "UnauthorizedAuthority"
  ELSE IF program_state.is_paused THEN "ProgramPaused"
  ELSE IF raffle_account.status # "Complete" THEN "InvalidRaffleState"
  ELSE IF raffle_account.winner = None THEN "WinnerNotSelected"
  ELSE IF ~CanDistributePrizeIgnoringTime THEN "PrizeAlreadyDistributed"
  ELSE DistributePrizePaymentError(winner, treasury, transfer_ok, overflow_checks)

DistributePrizeError(caller, winner, treasury, transfer_ok, overflow_checks) ==
  IF ~raffle_account.initialized THEN "AccountNotInitialized"
  ELSE IF raffle_account.winner = None THEN "UnwrapOnNone"
  ELSE IF winner # raffle_account.winner THEN "UnauthorizedTicketOwner"
  ELSE IF treasury # program_state.treasury THEN "UnauthorizedAuthority"
  ELSE IF program_state.is_paused THEN "ProgramPaused"
  ELSE IF raffle_account.status # "Complete" THEN "InvalidRaffleState"
  ELSE IF raffle_account.winner = None THEN "WinnerNotSelected"
  ELSE IF ~CanDistributePrize THEN "PrizeAlreadyDistributed"
  ELSE DistributePrizePaymentError(winner, treasury, transfer_ok, overflow_checks)

DistributePrize(caller, winner, treasury, transfer_ok, overflow_checks) ==
  /\ DistributePrizeError(caller, winner, treasury, transfer_ok, overflow_checks) = "Ok"
  /\ lamports' = AfterFeePaid(winner, treasury, overflow_checks)
  /\ raffle_account' = [raffle_account EXCEPT !.distributed_at = now]
  /\ program_state' = [program_state EXCEPT
       !.total_volume = WrappingAdd(@, TotalCollected(overflow_checks).value)]
  /\ UNCHANGED <<ticket_accounts, vrf_request_account, now, lotteryVars>>

\* ------------------------------------------------------------- cancel_raffle
\* The handler computes total_collected() (for its log line) before the refund.
CancelRaffleError(creator, transfer_ok, overflow_checks) ==
  IF ~raffle_account.initialized THEN "AccountNotInitialized"
  ELSE IF creator # raffle_account.creator THEN "UnauthorizedCreator"
  ELSE IF program_state.is_paused THEN "ProgramPaused"
  ELSE IF raffle_account.status # "Active" THEN "InvalidRaffleState"
  ELSE IF raffle_account.vrf_request # None THEN "CannotCancelAfterVRF"
  ELSE IF TotalCollected(overflow_checks).panic THEN "Panic"
  ELSE IF raffle_account.prize_amount # U64(0)
    THEN TransferLamportsError(lamports, RaffleEscrow, creator,
                               raffle_account.prize_amount, transfer_ok)
  ELSE "Ok"

CancelRaffle(creator, transfer_ok, overflow_checks) ==
  /\ CancelRaffleError(creator, transfer_ok, overflow_checks) = "Ok"
  /\ lamports' = IF raffle_account.prize_amount # U64(0)
                 THEN TransferLamports(lamports, RaffleEscrow, creator,
                                       raffle_account.prize_amount)
                 ELSE lamports
  /\ raffle_account' = [raffle_account EXCEPT !.status = "Cancelled", !.drawn_at = now]
  /\ UNCHANGED <<program_state, ticket_accounts, vrf_request_account, now, lotteryVars>>

\* -------------------------------------------------------------- claim_refund
ClaimRefundError(ticket_holder, ticket_number, transfer_ok) ==
  IF ~raffle_account.initialized THEN "AccountNotInitialized"
  ELSE IF (ticket_number + 1) \notin DOMAIN ticket_accounts THEN "AccountNotInitialized"
  ELSE IF ticket_holder # ticket_accounts[ticket_number + 1].owner
    THEN "UnauthorizedTicketOwner"
  ELSE IF program_state.is_paused THEN "ProgramPaused"
  ELSE IF raffle_account.status # "Cancelled" THEN "CannotRefundActiveRaffle"
  ELSE IF ticket_accounts[ticket_number + 1].purchase_time = 0 THEN "TicketAlreadyRefunded"
  ELSE IF ~(ticket_number < raffle_account.tickets_sold) THEN "InvalidTicketNumber"
  ELSE IF ~GreaterOrEqual(lamports[RaffleEscrow], raffle_account.ticket_price)
    THEN "InsufficientFunds"
  ELSE TransferLamportsError(lamports, RaffleEscrow, ticket_holder,
                             raffle_account.ticket_price, transfer_ok)

ClaimRefund(ticket_holder, ticket_number, transfer_ok) ==
  /\ ClaimRefundError(ticket_holder, ticket_number, transfer_ok) = "Ok"
  /\ lamports' = TransferLamports(lamports, RaffleEscrow, ticket_holder,
                                  raffle_account.ticket_price)
  /\ ticket_accounts' = [ticket_accounts EXCEPT ![ticket_number + 1].purchase_time = 0]
  /\ UNCHANGED <<program_state, raffle_account, vrf_request_account, now, lotteryVars>>

\* ----------------------------------------------------- update_program_config
\* params: each field is None when not provided (new_pause_state: "none").
UpdateProgramConfigError(authority, params) ==
  IF authority # program_state.authority THEN "UnauthorizedAuthority"
  ELSE IF params.new_fee_rate # None /\ ~ValidateFeeRateOk(params.new_fee_rate)
    THEN "InvalidFeeRate"
  ELSE "Ok"

UpdateProgramConfig(authority, params) ==
  /\ UpdateProgramConfigError(authority, params) = "Ok"
  /\ program_state' = [program_state EXCEPT
       !.fee_rate = IF params.new_fee_rate # None THEN params.new_fee_rate ELSE @,
       !.treasury = IF params.new_treasury # None THEN params.new_treasury ELSE @,
       !.is_paused = IF params.new_pause_state # "none"
                     THEN params.new_pause_state = "true" ELSE @,
       !.authority = IF params.new_authority # None THEN params.new_authority ELSE @]
  /\ UNCHANGED <<raffle_account, ticket_accounts, vrf_request_account, lamports, now,
                 lotteryVars>>

\* ------------------------------------------------------------- raffle system
\* Clock values of the raffle: creation, one second before the end, the end.
RaffleTimePoints == {1000, 4599, 4600}

RaffleTick ==
  /\ \E t \in RaffleTimePoints : t > now /\ now' = t
  /\ UNCHANGED <<raffleVars, lotteryVars>>

FeeRateInputs == {0, 300, 1001}
\* u64::MAX, and a ticket price of 2^56 lamports whose fee product overflows
MaxU64 == <<255, 255, 255, 255, 255, 255, 255, 255>>
LargeTicketPrice == <<0, 0, 0, 0, 0, 0, 0, 1>>
\* the balance of the buyer who can pay the large price: 2^57 lamports
LargeBalance == <<0, 0, 0, 0, 0, 0, 0, 2>>
CreateRaffleInputs ==
  [ title_len : {200}, description_len : {1000, 1001},
    prize_amount : {U64(99999999), U64(100000000), U64(198000000), MaxU64},
    ticket_price : {U64(999999), U64(1000000), LargeTicketPrice},
    max_tickets : {0, 2}, duration : {3599, 3600} ]
UpdateConfigInputs ==
  [ new_fee_rate : {None, 1000, 1001}, new_treasury : {None, AltTreasury},
    new_authority : {None}, new_pause_state : {"none", "true", "false"} ]
TicketNumberInputs == 0..3

InitRaffle ==
  /\ call = NoCall
  /\ now = 1000
  /\ game_state = CreateGame(25, 2, 1, PaymentDeadlineMinutes, 0)
  /\ player_list = <<>>
  /\ vrf_results = <<>>
  /\ treasury_state = InitializeTreasury
  /\ balances = [a \in TokenAccounts |-> IF a \in Wallets THEN InitialBalance ELSE 0]
  /\ \E fee_rate \in FeeRateInputs :
       /\ InitializeProgramError(fee_rate) = "Ok"
       /\ program_state = InitializeProgram(fee_rate, RaffleTreasury)
  /\ raffle_account = RaffleAccountUninitialized
  /\ ticket_accounts = <<>>
  /\ vrf_request_account = VrfRequestEmpty
  /\ lamports = [a \in RaffleWallets \cup {RaffleEscrow} |->
                   IF a = RaffleCreator THEN U64(200000000)
                   ELSE IF a = MaxPlayersCfg + 11 THEN LargeBalance
                   ELSE IF a = MaxPlayersCfg + 12 THEN U64(4000000) ELSE U64(0)]

NextRaffle ==
  \/ RaffleTick
  \/ \E c \in RaffleSigners, params \in CreateRaffleInputs, oc \in BOOLEAN :
       CreateRaffle(c, params, oc)
  \/ \E b \in RaffleSigners : PurchaseTicket(b)
  \/ \E c \in RaffleSigners, ok \in BOOLEAN : RequestWinnerSelection(c, ok)
  \/ \E v \in RaffleRandomness : OraoFulfill(v)
  \/ \E c \in RaffleSigners, n \in TicketNumberInputs : FulfillWinnerSelection(c, n)
  \/ \E c \in RaffleSigners, w \in RaffleWallets, t \in RaffleWallets,
        ok \in BOOLEAN, oc \in BOOLEAN :
       DistributePrize(c, w, t, ok, oc)
  \/ \E c \in RaffleSigners, ok \in BOOLEAN, oc \in BOOLEAN : CancelRaffle(c, ok, oc)
  \/ \E h \in RaffleSigners, n \in TicketNumberInputs, ok \in BOOLEAN :
       ClaimRefund(h, n, ok)
  \/ \E a \in RaffleSigners, params \in UpdateConfigInputs : UpdateProgramConfig(a, params)

SpecRaffle == InitRaffle /\ [][NextRaffle]_vars

\* ------------------------------------------------- four-player reference game
\* One game with entry_fee 1,000,000, max_players 4 and winner_count 1, played
\* by four funded wallets through joins, selection, three oracle-signed rounds,
\* settlement and the claim.  Wallets join in index order and select their own
\* index as number.
ScenarioWallets == 1..4
ScenarioRounds == 1..3
ScenarioRandomValues == {<<b, 0, 0, 0, 0, 0, 0, 0>> : b \in 0..4}

InitScenario ==
  /\ call = NoCall
  /\ now = 0
  /\ CreateGameError(MAX_GAME_ID_LEN, 1000000, 4, 1) = "Ok"
  /\ game_state = CreateGame(1000000, 4, 1, PaymentDeadlineMinutes, 0)
  /\ player_list = <<>>
  /\ vrf_results = <<>>
  /\ treasury_state = InitializeTreasury
  /\ NoRaffleYet
  /\ balances = [a \in ScenarioWallets \cup
                       {EscrowAccount, TreasuryTokenAccount, DestinationTokenAccount}
                   |-> IF a \in ScenarioWallets THEN 1000000 ELSE 0]

NextScenario ==
  \/ \E w \in ScenarioWallets : w = Len(player_list) + 1 /\ JoinGame(w)
  \/ \E w \in ScenarioWallets : SelectNumber(w, w)
  \/ StartGame(game_state.authority)
  \/ \E r \in ScenarioRounds, v \in ScenarioRandomValues :
       SubmitVrf(game_state.vrf_oracle, r, v, MIN_PROOF_LEN)
  \/ \E r \in ScenarioRounds : ProcessElimination(game_state.authority, r)
  \/ CompleteGame(game_state.authority)
  \/ \E w \in ScenarioWallets : ClaimPrize(w)

SpecScenario == InitScenario /\ [][NextScenario]_vars

\* ------------------------------------------------------ several games, one ledger
\* The treasury ledger is shared by all games.  Two-player games with one
\* winner are played one after another: once a game is settled and its escrow
\* is empty, create_game opens the next one with a fresh roster and no
\* randomness results, while the ledger and the token balances carry over.
LedgerWallets == 1..2

InitLedger ==
  /\ call = NoCall
  /\ now = 0
  /\ CreateGameError(MAX_GAME_ID_LEN, 25, 2, 1) = "Ok"
  /\ game_state = CreateGame(25, 2, 1, PaymentDeadlineMinutes, 0)
  /\ player_list = <<>>
  /\ vrf_results = <<>>
  /\ treasury_state = InitializeTreasury
  /\ NoRaffleYet
  /\ balances = [a \in TokenAccounts |-> IF a \in Wallets THEN InitialBalance ELSE 0]

CreateNextGame ==
  /\ game_state.state = "Distributing"
  /\ balances[EscrowAccount] = 0
  /\ CreateGameError(MAX_GAME_ID_LEN, 25, 2, 1) = "Ok"
  /\ game_state' = CreateGame(25, 2, 1, PaymentDeadlineMinutes, now)
  /\ player_list' = <<>>
  /\ vrf_results' = <<>>
  /\ UNCHANGED <<treasury_state, balances, now, call, raffleVars>>

NextLedger ==
  \/ \E w \in LedgerWallets : JoinGame(w)
  \/ \E w \in LedgerWallets : SelectNumber(w, w)
  \/ StartGame(game_state.authority)
  \/ \E r \in 1..MaxRound, v \in RandomValues :
       SubmitVrf(game_state.vrf_oracle, r, v, MIN_PROOF_LEN)
  \/ \E r \in 1..MaxRound : ProcessElimination(game_state.authority, r)
  \/ CompleteGame(game_state.authority)
  \/ \E w \in LedgerWallets : ClaimPrize(w)
  \/ \E a \in AmountInputs : WithdrawTreasury(treasury_state.authority, a)
  \/ CreateNextGame

SpecLedger == InitLedger /\ [][NextLedger]_vars

\* ====================================================================== claims

\* C1: in every reachable state prize_pool = entry_fee * (players in the roster)
\* and treasury_fee = (players in the roster) * floor(entry_fee / 10), hence
\* treasury_fee <= prize_pool; and a step changes either accumulator only if it
\* is a successful join (it appends one player and moves entry_fee into escrow).
C1_Accumulators ==
  /\ [](/\ game_state.prize_pool = game_state.entry_fee * Len(player_list)
        /\ game_state.treasury_fee = Len(player_list) * (game_state.entry_fee \div 10)
        /\ game_state.treasury_fee <= game_state.prize_pool)
  /\ [][(game_state'.prize_pool # game_state.prize_pool
           \/ game_state'.treasury_fee # game_state.treasury_fee)
        => /\ Len(player_list') = Len(player_list) + 1
           /\ SubSeq(player_list', 1, Len(player_list)) = player_list
           /\ balances'[EscrowAccount] = balances[EscrowAccount] + game_state.entry_fee]_vars
\* C1 witness: a settled three-player game in which a prize has been claimed
C1_Witness ==
  /\ game_state.state = "Distributing"
  /\ Len(player_list) = 3
  /\ game_state.prize_pool = 75 /\ game_state.treasury_fee = 6
  /\ \E i \in 1..Len(player_list) : player_list[i].prize_claimed

\* C2: the roster never holds more than max_players players, and on a roster
\* that holds max_players a join by any wallet is rejected.
C2_Capacity ==
  /\ Len(player_list) <= game_state.max_players
  /\ Len(player_list) = game_state.max_players
       => \A w \in Wallets : JoinGameError(w) # "Ok"
\* C2 witness: a full roster, still within the deadline, with a funded wallet
\* outside it whose join is refused
C2_Witness ==
  /\ Len(player_list) = game_state.max_players
  /\ now <= game_state.payment_deadline
  /\ \E w \in Wallets :
       /\ w \notin RosterWallets
       /\ TransferOk(w, game_state.entry_fee)
       /\ JoinGameError(w) # "Ok"

\* C3: while the clock is past the payment deadline every join on a Joining
\* game is rejected with PaymentDeadlineExpired, free slots or not, and no step
\* taken past the deadline adds a player, changes prize_pool or treasury_fee,
\* or moves tokens out of a wallet or into escrow.
C3_JoinAfterDeadline ==
  /\ []((game_state.state = "Joining" /\ now > game_state.payment_deadline)
          => \A w \in Wallets : JoinGameError(w) = "PaymentDeadlineExpired")
  /\ [][now > game_state.payment_deadline
          => /\ Len(player_list') = Len(player_list)
             /\ game_state'.prize_pool = game_state.prize_pool
             /\ game_state'.treasury_fee = game_state.treasury_fee
             /\ balances'[EscrowAccount] <= balances[EscrowAccount]
             /\ \A w \in Wallets : balances'[w] >= balances[w]]_vars
\* C3 witness: past the deadline, a Joining game with one player, free slots
\* and an outside wallet whose join is refused for the deadline
C3_Witness ==
  /\ game_state.state = "Joining"
  /\ now > game_state.payment_deadline
  /\ Len(player_list) = 1
  /\ Len(player_list) < game_state.max_players
  /\ \E w \in Wallets : w \notin RosterWallets /\ JoinGameError(w) = "PaymentDeadlineExpired"

\* C4: no wallet appears twice in the roster; a join by a wallet already in
\* the roster is rejected; and no wallet ever pays the entry fee twice (every
\* wallet still holds at least its initial balance less one entry fee).
C4_UniqueWallets ==
  /\ \A i, j \in 1..Len(player_list) :
       player_list[i].wallet = player_list[j].wallet => i = j
  /\ \A w \in RosterWallets : JoinGameError(w) # "Ok"
  /\ \A w \in Wallets : balances[w] >= InitialBalance - game_state.entry_fee
\* C4 witness: a Joining game with two players and a free slot where a roster
\* member's join is refused only because the wallet already joined
C4_Witness ==
  /\ Len(player_list) = 2
  /\ \E w \in RosterWallets :
       /\ TransferOk(w, game_state.entry_fee)
       /\ JoinGameError(w) = "PlayerAlreadyJoined"

\* C5: the round advances by exactly one and never skips or decreases: an
\* oracle-signed submit_vrf for any round other than current_round + 1 is
\* rejected, no step changes current_round except to current_round + 1, and
\* every step that records a randomness result (on either path) raises
\* current_round by exactly 1.
C5_RoundAdvance ==
  /\ [](\A r \in RoundInputs, l \in ProofLenInputs :
          r # game_state.current_round + 1
            => SubmitVrfError(game_state.vrf_oracle, r, l) # "Ok")
  /\ [][game_state'.current_round \in
          {game_state.current_round, game_state.current_round + 1}]_vars
  /\ [][(vrf_results' # vrf_results /\ DOMAIN vrf_results' # DOMAIN vrf_results)
           \/ game_state'.drawn_numbers # game_state.drawn_numbers
          => game_state'.current_round = game_state.current_round + 1]_vars
\* C5 witness: after round 1 the oracle's submit for round 1 again and for
\* round 3 are rejected, the one for round 2 is accepted
C5_Witness ==
  /\ game_state.state = "Playing"
  /\ game_state.current_round = 1
  /\ SubmitVrfError(game_state.vrf_oracle, 1, MIN_PROOF_LEN) # "Ok"
  /\ SubmitVrfError(game_state.vrf_oracle, 3, MIN_PROOF_LEN) = "InvalidRound"
  /\ SubmitVrfError(game_state.vrf_oracle, 2, MIN_PROOF_LEN) = "Ok"

\* C6: a fulfilment can only be applied for round = current_round + 1, also
\* when the oracle reports the value available; result accounts exist exactly
\* for rounds 1..current_round, one per round, each holding the drawn number
\* recorded for its round.
C6_OneResultPerRound ==
  /\ \A r \in RoundInputs :
       FulfillOraoVrfError(r, "fulfilled") = "Ok" => r = game_state.current_round + 1
  /\ DOMAIN vrf_results = 1..game_state.current_round
  /\ Len(game_state.drawn_numbers) = Cardinality(DOMAIN vrf_results)
  /\ \A r \in DOMAIN vrf_results :
       /\ vrf_results[r].round = r
       /\ game_state.drawn_numbers[r] = vrf_results[r].drawn_number
\* C6 witness: a request for round r is still pending although the
\* oracle-signed path has already produced round r; its fulfilment is refused
C6_Witness ==
  /\ game_state.state = "Playing"
  /\ game_state.vrf_request_pending
  /\ game_state.pending_round = game_state.current_round
  /\ game_state.pending_round \in DOMAIN vrf_results
  /\ FulfillOraoVrfError(game_state.pending_round, "fulfilled") = "AccountAlreadyInUse"

\* C7: the drawn-number sequence is as long as current_round in every
\* reachable state, and no step changes or removes a recorded drawn number.
C7_DrawnNumbers ==
  /\ [](Len(game_state.drawn_numbers) = game_state.current_round)
  /\ [][\A i \in 1..Len(game_state.drawn_numbers) :
          /\ Len(game_state'.drawn_numbers) >= i
          /\ game_state'.drawn_numbers[i] = game_state.drawn_numbers[i]]_vars
\* C7 witness: two rounds have been drawn
C7_Witness ==
  /\ game_state.current_round = 2
  /\ Len(game_state.drawn_numbers) = 2

\* C8: for every random value and every range [min,max] with min <= max the
\* drawn number is produced, equals (little-endian u64 of the first 8 bytes
\* mod (max - min + 1)) + min and lies in [min,max].
C8_DrawnInRange ==
  (call.fn = "generate_number_from_random" /\ call.done)
    => /\ ~call.panicked
       /\ call.result = FromLeBytesMod(SubSeq(call.random_bytes, 1, 8),
                                       call.max - call.min + 1) + call.min
       /\ call.result >= call.min
       /\ call.result <= call.max

\* C9: the selected numbers of active players are pairwise distinct, and
\* select_number for a number another player holds is rejected.
C9_DistinctNumbers ==
  /\ \A i, j \in ActiveIdx :
       (i # j /\ player_list[i].selected_number # None)
         => player_list[i].selected_number # player_list[j].selected_number
  /\ \A w \in Wallets, n \in NumberInputs :
       (\E i \in 1..Len(player_list) :
          player_list[i].wallet # w /\ player_list[i].selected_number = n)
         => SelectNumberError(w, n) # "Ok"
\* C9 witness: two players hold numbers and a third, who has none, is refused
\* a number because it is taken
C9_Witness ==
  /\ game_state.state = "NumberSelection"
  /\ Cardinality({i \in 1..Len(player_list) : player_list[i].selected_number # None}) = 2
  /\ \E w \in RosterWallets, n \in NumberInputs :
       /\ player_list[FindPlayer(w)].selected_number = None
       /\ SelectNumberError(w, n) = "NumberAlreadyTaken"

\* C10: a player selects once: for a player with a number every later
\* select_number is rejected and no step changes the recorded number (which
\* lies in the game's range); select_number is rejected with InvalidGameState
\* outside NumberSelection and rejected for any number outside the range.
C10_SelectOnce ==
  /\ [](\A i \in 1..Len(player_list) :
          player_list[i].selected_number # None
            => /\ \A n \in NumberInputs : SelectNumberError(player_list[i].wallet, n) # "Ok"
               /\ player_list[i].selected_number >= game_state.number_range.min
               /\ player_list[i].selected_number <= game_state.number_range.max)
  /\ [](\A w \in Wallets, n \in NumberInputs :
          /\ game_state.state # "NumberSelection" => SelectNumberError(w, n) = "InvalidGameState"
          /\ (n < game_state.number_range.min \/ n > game_state.number_range.max)
               => SelectNumberError(w, n) # "Ok")
  /\ [][\A i \in 1..Len(player_list) :
          player_list[i].selected_number # None
            => player_list'[i].selected_number = player_list[i].selected_number]_vars
\* C10 witness: during NumberSelection a player who holds 1 asks for the free
\* number 2 and is refused because the player already selected
C10_Witness ==
  /\ game_state.state = "NumberSelection"
  /\ \E w \in RosterWallets :
       /\ player_list[FindPlayer(w)].selected_number = 1
       /\ \A i \in 1..Len(player_list) : player_list[i].selected_number # 2
       /\ SelectNumberError(w, 2) = "NumberAlreadySelected"

\* C11: complete_game succeeds only in Playing with at most winner_count
\* remaining active players: a step that settles the game or marks a winner
\* starts in Playing with Cardinality(active) <= winner_count.
C11_CompleteGuard ==
  [][(\/ (game_state.state # "Distributing" /\ game_state'.state = "Distributing")
      \/ \E i \in 1..Len(player_list) :
           ~player_list[i].is_winner /\ player_list'[i].is_winner)
       => /\ game_state.state = "Playing"
          /\ Cardinality(ActiveIdx) <= game_state.winner_count]_vars

\* C12: a successful complete_game marks exactly min(remaining active
\* players, winner_count) players as winners, all of them non-eliminated, each
\* with prize_amount = (prize_pool - treasury_fee) div that count; every other
\* player keeps is_winner = FALSE and prize_amount = 0.
C12_WinnerMarking ==
  [][(game_state.state = "Playing" /\ game_state'.state = "Distributing")
       => LET remaining == Cardinality({i \in 1..Len(player_list) :
                                          player_list[i].eliminated_round = None})
              n == IF remaining < game_state.winner_count
                   THEN remaining ELSE game_state.winner_count
              W == {i \in 1..Len(player_list') : player_list'[i].is_winner}
          IN /\ n > 0
             /\ Len(player_list') = Len(player_list)
             /\ Cardinality(W) = n
             /\ \A i \in W :
                  /\ player_list'[i].eliminated_round = None
                  /\ player_list'[i].prize_amount =
                       (game_state.prize_pool - game_state.treasury_fee) \div n
             /\ \A i \in (1..Len(player_list')) \ W :
                  player_list'[i].prize_amount = 0]_vars
\* C12 witness: a settled three-player game with winner_count 2 in which two
\* players were eliminated: the one remaining player is the only winner and
\* holds the whole distributable amount
C12_Witness ==
  /\ game_state.state = "Distributing"
  /\ Len(player_list) = 3
  /\ game_state.winner_count = 2
  /\ Cardinality({i \in 1..Len(player_list) : player_list[i].eliminated_round # None}) = 2
  /\ \E i \in 1..Len(player_list) :
       /\ player_list[i].is_winner
       /\ player_list[i].prize_amount = game_state.prize_pool - game_state.treasury_fee
       /\ \A j \in (1..Len(player_list)) \ {i} :
            ~player_list[j].is_winner /\ player_list[j].prize_amount = 0

\* C13: over any sequence of operations a winner receives from escrow at most
\* the prize_amount (the wallet holds its initial balance less the entry fee,
\* plus the prize exactly when the claimed flag is set), and a claim_prize by
\* a winner who has claimed fails with PrizeAlreadyClaimed.
C13_ClaimOnce ==
  \A i \in 1..Len(player_list) :
    player_list[i].is_winner
      => /\ balances[player_list[i].wallet] =
              InitialBalance - game_state.entry_fee
                + (IF player_list[i].prize_claimed THEN player_list[i].prize_amount ELSE 0)
         /\ player_list[i].prize_claimed
              => ClaimPrizeError(player_list[i].wallet) = "PrizeAlreadyClaimed"
\* C13 witness: a winner has claimed, escrow still holds at least another
\* prize of that size, and the winner's second claim is refused
C13_Witness ==
  /\ game_state.state = "Distributing"
  /\ \E i \in 1..Len(player_list) :
       /\ player_list[i].is_winner
       /\ player_list[i].prize_claimed
       /\ player_list[i].prize_amount > 0
       /\ balances[EscrowAccount] >= player_list[i].prize_amount
       /\ ClaimPrizeError(player_list[i].wallet) = "PrizeAlreadyClaimed"

\* C14: once a game is settled (some player is marked a winner) a roster
\* player who is not a winner never receives anything from escrow: the wallet
\* stays at its initial balance less the entry fee, its claim_prize is
\* rejected and its request_refund is rejected.
C14_LosersNotPaid ==
  (\E k \in 1..Len(player_list) : player_list[k].is_winner)
    => \A i \in 1..Len(player_list) :
         ~player_list[i].is_winner
           => /\ balances[player_list[i].wallet] = InitialBalance - game_state.entry_fee
              /\ ClaimPrizeError(player_list[i].wallet) # "Ok"
              /\ RequestRefundError(player_list[i].wallet) # "Ok"
\* C14 witness: a settled game whose escrow still holds an entry fee, with a
\* paid winner and a non-winner whose claim fails with NotAWinner and whose
\* refund request fails with GameNotCancelled
C14_Witness ==
  /\ game_state.state = "Distributing"
  /\ balances[EscrowAccount] >= game_state.entry_fee
  /\ \E k \in 1..Len(player_list) : player_list[k].is_winner /\ player_list[k].prize_claimed
  /\ \E i \in 1..Len(player_list) :
       /\ ~player_list[i].is_winner
       /\ ClaimPrizeError(player_list[i].wallet) = "NotAWinner"
       /\ RequestRefundError(player_list[i].wallet) = "GameNotCancelled"

\* C15: in every lifecycle state other than Cancelled request_refund fails
\* with GameNotCancelled for every caller, and no step from such a state pays
\* a wallet or sets a processed flag except a winner's prize claim.
C15_RefundOnlyCancelled ==
  /\ [](game_state.state # "Cancelled"
          => \A w \in Wallets : RequestRefundError(w) = "GameNotCancelled")
  /\ [][game_state.state # "Cancelled"
          => /\ \A i \in 1..Len(player_list) :
                  (Len(player_list') >= i
                     /\ player_list'[i].prize_claimed # player_list[i].prize_claimed)
                    => game_state.state = "Distributing" /\ player_list[i].is_winner
             /\ \A w \in Wallets :
                  balances'[w] > balances[w]
                    => /\ game_state.state = "Distributing"
                       /\ FindPlayer(w) # 0
                       /\ player_list[FindPlayer(w)].is_winner
                       /\ balances'[w] = balances[w] + player_list[FindPlayer(w)].prize_amount]_vars
\* C15 witness: a game in Playing whose escrow is funded; a roster member and
\* a wallet outside the roster are both refused with GameNotCancelled
C15_Witness ==
  /\ game_state.state = "Playing"
  /\ balances[EscrowAccount] >= game_state.entry_fee
  /\ \E w \in RosterWallets : RequestRefundError(w) = "GameNotCancelled"
  /\ \E w \in Wallets \ RosterWallets : RequestRefundError(w) = "GameNotCancelled"

\* C16: in a Cancelled game every roster player whose refund is not yet
\* processed can obtain it (request_refund is accepted) and has not been paid;
\* a player whose refund is processed has received exactly entry_fee and every
\* later request_refund fails with RefundAlreadyProcessed.
C16_RefundOnce ==
  game_state.state = "Cancelled"
    => \A i \in 1..Len(player_list) :
         /\ ~player_list[i].prize_claimed
              => /\ RequestRefundError(player_list[i].wallet) = "Ok"
                 /\ balances[player_list[i].wallet] = InitialBalance - game_state.entry_fee
         /\ player_list[i].prize_claimed
              => /\ RequestRefundError(player_list[i].wallet) = "RefundAlreadyProcessed"
                 /\ balances[player_list[i].wallet] = InitialBalance
\* C16 witness: a game cancelled during play; an eliminated player has been
\* refunded and is refused a second refund while another player's entry fee
\* is still in escrow
C16_Witness ==
  /\ game_state.state = "Cancelled"
  /\ \E i, j \in 1..Len(player_list) :
       /\ player_list[i].eliminated_round # None
       /\ player_list[i].prize_claimed
       /\ balances[player_list[i].wallet] = InitialBalance
       /\ RequestRefundError(player_list[i].wallet) = "RefundAlreadyProcessed"
       /\ ~player_list[j].prize_claimed
       /\ balances[EscrowAccount] >= game_state.entry_fee

\* C17: in Joining, cancel_game by the authority (with an admissible reason)
\* succeeds when the roster is empty; with a non-empty roster it fails with
\* CannotCancelActiveGame while now <= payment_deadline and succeeds once
\* now > payment_deadline; no step cancels a Joining game otherwise.
C17_CancelFromJoining ==
  /\ [](game_state.state = "Joining"
          => CancelGameError(game_state.authority, MAX_REASON_LEN) =
               (IF player_list = <<>> \/ now > game_state.payment_deadline
                THEN "Ok" ELSE "CannotCancelActiveGame"))
  /\ [][(game_state.state = "Joining" /\ game_state'.state = "Cancelled")
          => (player_list = <<>> \/ now > game_state.payment_deadline)]_vars
\* C17 witness: a game cancelled from Joining (never started) with a player
\* in the roster, after the payment deadline
C17_Witness ==
  /\ game_state.state = "Cancelled"
  /\ game_state.started_at = None
  /\ player_list # <<>>
  /\ game_state.completed_at > game_state.payment_deadline

\* C18: in NumberSelection cancel_game by the authority succeeds exactly when
\* now is more than 24 hours past started_at and is otherwise rejected with
\* CannotCancelActiveGame; in Playing it succeeds with no further guard.
C18_CancelAfterStart ==
  /\ [](game_state.state = "NumberSelection"
          => /\ game_state.started_at # None
             /\ CancelGameError(game_state.authority, MAX_REASON_LEN) =
                  (IF now > game_state.started_at + 24 * 60 * 60
                   THEN "Ok" ELSE "CannotCancelActiveGame"))
  /\ [](game_state.state = "Playing"
          => CancelGameError(game_state.authority, MAX_REASON_LEN) = "Ok")
  /\ [][(game_state.state = "NumberSelection" /\ game_state'.state = "Cancelled")
          => now > game_state.started_at + 24 * 60 * 60]_vars
\* C18 witness: exactly 24 hours after the start the cancellation of a game in
\* NumberSelection is still refused
C18_Witness ==
  /\ game_state.state = "NumberSelection"
  /\ game_state.started_at # None
  /\ now = game_state.started_at + 24 * 60 * 60
  /\ CancelGameError(game_state.authority, MAX_REASON_LEN) = "CannotCancelActiveGame"

\* C19: cancel_game is rejected for every caller and reason in Distributing,
\* Completed and Cancelled; a settled game never becomes Cancelled and a
\* Cancelled game never changes its lifecycle state.
C19_NoCancelAfterEnd ==
  /\ [](game_state.state \in {"Distributing", "Completed", "Cancelled"}
          => \A c \in Signers, l \in ReasonLenInputs : CancelGameError(c, l) # "Ok")
  /\ [][game_state.state \in {"Distributing", "Completed"}
          => game_state'.state # "Cancelled"]_vars
  /\ [][game_state.state = "Cancelled" => game_state'.state = "Cancelled"]_vars
\* C19 witness: a settled game on which the authority's cancel_game is refused
\* with CannotCancelGame
C19_Witness ==
  /\ game_state.state = "Distributing"
  /\ CancelGameError(game_state.authority, MAX_REASON_LEN) = "CannotCancelGame"

\* C20: every change of the lifecycle state follows an edge of Created ->
\* Joining -> NumberSelection -> Playing -> Distributing -> Completed or an
\* edge into Cancelled from Created, Joining, NumberSelection or Playing.
C20_LifecycleEdges ==
  [][game_state'.state # game_state.state
       => <<game_state.state, game_state'.state>> \in
            {<<"Created", "Joining">>, <<"Joining", "NumberSelection">>,
             <<"NumberSelection", "Playing">>, <<"Playing", "Distributing">>,
             <<"Distributing", "Completed">>, <<"Created", "Cancelled">>,
             <<"Joining", "Cancelled">>, <<"NumberSelection", "Cancelled">>,
             <<"Playing", "Cancelled">>}]_vars
\* C20 witness: a game that went through Joining, NumberSelection and Playing,
\* had a round drawn, and was then cancelled
C20_Witness ==
  /\ game_state.state = "Cancelled"
  /\ game_state.started_at # None
  /\ game_state.current_round = 1

\* C21: a randomness result is consumed by at most one elimination pass:
\* process_elimination for a round whose result is marked used is rejected
\* for every caller, a used result stays used, and no step eliminates a
\* player in a round whose result is already used.
C21_ConsumedOnce ==
  /\ [](\A r \in DOMAIN vrf_results :
          vrf_results[r].used
            => \A c \in Signers : ProcessEliminationError(c, r) # "Ok")
  /\ [][\A r \in DOMAIN vrf_results :
          vrf_results[r].used
            => /\ vrf_results'[r].used
               /\ \A i \in 1..Len(player_list) :
                    player_list'[i].eliminated_round = r
                      => player_list[i].eliminated_round = r]_vars
\* C21 witness: round 1 was processed and eliminated a player; the authority's
\* second process_elimination for round 1 is refused because the result is used
C21_Witness ==
  /\ game_state.state = "Playing"
  /\ game_state.current_round = 1
  /\ 1 \in DOMAIN vrf_results
  /\ vrf_results[1].used
  /\ \E i \in 1..Len(player_list) : player_list[i].eliminated_round = 1
  /\ ProcessEliminationError(game_state.authority, 1) = "VrfAlreadyUsed"

\* C22: on the oracle-service path a request sets the pending flag and
\* records round current_round + 1; fulfill_orao_vrf is accepted only with
\* the flag set, its round equal to pending_round and the oracle value
\* available, and is otherwise rejected (NoVrfRequestPending, InvalidRound,
\* VrfNotFulfilled); the step that clears the flag records the result of the
\* pending round and resets pending_round.
C22_RequestFulfill ==
  /\ [](game_state.state = "Playing"
          => \A r \in RoundInputs :
               /\ ~game_state.vrf_request_pending
                    => \A f \in RandomnessInputs :
                         /\ FulfillOraoVrfError(r, f) # "Ok"
                         /\ (f # "absent" /\ r \notin DOMAIN vrf_results)
                              => FulfillOraoVrfError(r, f) = "NoVrfRequestPending"
               /\ (game_state.vrf_request_pending /\ r # game_state.pending_round)
                    => \A f \in RandomnessInputs :
                         /\ FulfillOraoVrfError(r, f) # "Ok"
                         /\ (f # "absent" /\ r \notin DOMAIN vrf_results)
                              => FulfillOraoVrfError(r, f) = "InvalidRound"
               /\ FulfillOraoVrfError(r, "unfulfilled") # "Ok"
               /\ FulfillOraoVrfError(r, "absent") # "Ok")
  /\ [][(~game_state.vrf_request_pending /\ game_state'.vrf_request_pending)
          => /\ game_state.state = "Playing"
             /\ game_state'.pending_round = game_state.current_round + 1
             /\ game_state'.current_round = game_state.current_round
             /\ vrf_results' = vrf_results]_vars
  /\ [][(game_state.vrf_request_pending /\ ~game_state'.vrf_request_pending)
          => /\ game_state'.current_round = game_state.pending_round
             /\ game_state'.pending_round = 0
             /\ game_state.pending_round \notin DOMAIN vrf_results
             /\ game_state.pending_round \in DOMAIN vrf_results'
             /\ vrf_results'[game_state.pending_round].round = game_state.pending_round]_vars
\* C22 witness: a request for round 2 is pending after round 1 was fulfilled;
\* the fulfilment for round 2 is accepted when the value is available and
\* refused when it is not or when it names another round
C22_Witness ==
  /\ game_state.state = "Playing"
  /\ game_state.current_round = 1
  /\ game_state.vrf_request_pending
  /\ game_state.pending_round = 2
  /\ FulfillOraoVrfError(2, "fulfilled") = "Ok"
  /\ FulfillOraoVrfError(2, "unfulfilled") = "VrfNotFulfilled"
  /\ FulfillOraoVrfError(3, "fulfilled") = "InvalidRound"

\* C23: while a randomness request is pending every request_orao_vrf is
\* rejected with VrfRequestAlreadyPending, and a step that leaves the flag set
\* leaves pending_round unchanged.
C23_RequestWhilePending ==
  /\ [](game_state.vrf_request_pending
          => \A r \in RoundInputs : RequestOraoVrfError(r, TRUE) = "VrfRequestAlreadyPending")
  /\ [][(game_state.vrf_request_pending /\ game_state'.vrf_request_pending)
          => game_state'.pending_round = game_state.pending_round]_vars

\* C24: in the game with entry_fee 1,000,000, max_players 4 and winner_count 1
\* the number range is [1,8]; every join accrues 100,000 of fee, so after four
\* joins prize_pool = 4,000,000 and treasury_fee = 400,000; a settlement after
\* three eliminations gives the one remaining player prize_amount 3,600,000
\* and nobody else anything.
C24_ReferenceGame ==
  /\ game_state.number_range = [min |-> 1, max |-> 8]
  /\ game_state.treasury_fee = 100000 * Len(player_list)
  /\ Len(player_list) = 4
       => game_state.prize_pool = 4000000 /\ game_state.treasury_fee = 400000
  /\ (/\ game_state.state = "Distributing"
      /\ Cardinality({i \in 1..Len(player_list) :
                        player_list[i].eliminated_round # None}) = 3)
       => \A i \in 1..Len(player_list) :
            IF player_list[i].eliminated_round = None
            THEN player_list[i].is_winner /\ player_list[i].prize_amount = 3600000
            ELSE ~player_list[i].is_winner /\ player_list[i].prize_amount = 0
\* C24 witness: the game was settled after three eliminations and the winner
\* has claimed: the winner's wallet holds 3,600,000, the treasury account the
\* 400,000 fee and escrow is empty
C24_Witness ==
  /\ game_state.state = "Distributing"
  /\ Len(player_list) = 4
  /\ Cardinality({i \in 1..Len(player_list) : player_list[i].eliminated_round # None}) = 3
  /\ \E i \in 1..Len(player_list) :
       /\ player_list[i].is_winner
       /\ player_list[i].prize_claimed
       /\ balances[player_list[i].wallet] = 3600000
  /\ balances[TreasuryTokenAccount] = 400000
  /\ balances[EscrowAccount] = 0

\* C25: withdraw_treasury by the treasury authority is rejected with
\* InsufficientTreasuryBalance when the requested amount exceeds
\* pending_withdrawal and is rejected for every amount when nothing is pending;
\* a request for the whole balance or for a positive amount within it is
\* accepted; a step that lowers pending_withdrawal lowers it by exactly the
\* amount moved to the destination account (the whole pending balance when no
\* amount is given), and pending_withdrawal is never negative.
C25_WithdrawContract ==
  /\ [](/\ treasury_state.pending_withdrawal >= 0
        /\ \A a \in AmountInputs :
             /\ (a # None /\ a > treasury_state.pending_withdrawal)
                  => WithdrawTreasuryError(treasury_state.authority, a)
                       = "InsufficientTreasuryBalance"
             /\ treasury_state.pending_withdrawal = 0
                  => WithdrawTreasuryError(treasury_state.authority, a) # "Ok"
             /\ (/\ treasury_state.pending_withdrawal > 0
                 /\ a = None \/ (0 < a /\ a <= treasury_state.pending_withdrawal))
                  => WithdrawTreasuryError(treasury_state.authority, a) = "Ok")
  /\ [][treasury_state'.pending_withdrawal < treasury_state.pending_withdrawal
          => \E a \in AmountInputs :
               /\ WithdrawTreasuryError(treasury_state.authority, a) = "Ok"
               /\ treasury_state'.pending_withdrawal
                    = treasury_state.pending_withdrawal - WithdrawalAmount(a)
               /\ balances'[DestinationTokenAccount]
                    = balances[DestinationTokenAccount] + WithdrawalAmount(a)
               /\ balances'[TreasuryTokenAccount]
                    = balances[TreasuryTokenAccount] - WithdrawalAmount(a)
               /\ treasury_state'.total_collected = treasury_state.total_collected
               /\ treasury_state'.pending_withdrawal >= 0]_vars
\* C25 witness: after a partial withdrawal of 4 out of 6 collected, 2 are
\* pending; a further request for 4 is refused and one for the rest is accepted
C25_Witness ==
  /\ treasury_state.total_collected = 6
  /\ treasury_state.pending_withdrawal = 2
  /\ balances[DestinationTokenAccount] = 4
  /\ WithdrawTreasuryError(treasury_state.authority, 4) = "InsufficientTreasuryBalance"
  /\ WithdrawTreasuryError(treasury_state.authority, None) = "Ok"

\* C26: over any number of games completed and any withdrawals made, the
\* treasury ledger keeps pending_withdrawal <= total_collected -
\* total_distributed.
C26_LedgerInvariant ==
  treasury_state.pending_withdrawal
    <= treasury_state.total_collected - treasury_state.total_distributed
\* C26 witness: two games were completed (4 collected from each) and 4 were
\* withdrawn in between, so 4 of the 8 collected are still pending
C26_Witness ==
  /\ treasury_state.total_collected = 8
  /\ treasury_state.pending_withdrawal = 4
  /\ balances[DestinationTokenAccount] = 4
  /\ game_state.state = "Distributing"

\* C27: for every 64-bit amount f > 0 and every percentage p in [0,100],
\* calculate_treasury_fee(f, p) returns floor(f * p / 100).
C27_FeeIsFloor ==
  (/\ call.fn = "calculate_treasury_fee"
   /\ call.done
   /\ call.amount # <<0, 0, 0, 0>>
   /\ call.fee_percentage \in 0..100)
    => /\ ~call.err
       /\ call.result = DivLimbs(MulLimbs(call.amount, call.fee_percentage), 100)

\* C28: a raffle's status changes only Active -> Drawing (by an accepted
\* request_winner_selection, which records the VRF request), Drawing ->
\* Complete (by an accepted fulfill_winner_selection, which records the
\* winner) or Active -> Cancelled (by a cancel_raffle accepted from the
\* creator); cancel_raffle is rejected for every signer other than the
\* creator, in every non-Active status and once a VRF request is recorded; a
\* cancelled raffle has no VRF request and no winner, a raffle with a VRF
\* request is never Cancelled, and Complete and Cancelled are never left.
C28_RaffleStatusEdges ==
  /\ [](raffle_account.initialized
          => /\ \A c \in RaffleSigners :
                  (\/ c # raffle_account.creator
                   \/ raffle_account.status # "Active"
                   \/ raffle_account.vrf_request # None)
                    => \A ok \in BOOLEAN, oc \in BOOLEAN :
                         CancelRaffleError(c, ok, oc) # "Ok"
             /\ raffle_account.status = "Cancelled"
                  => raffle_account.vrf_request = None /\ raffle_account.winner = None
             /\ raffle_account.status \in {"Drawing", "Complete"}
                  <=> raffle_account.vrf_request # None
             /\ raffle_account.status = "Complete" <=> raffle_account.winner # None)
  /\ [][(raffle_account.initialized /\ raffle_account'.status # raffle_account.status)
          => \/ /\ raffle_account.status = "Active"
                /\ raffle_account'.status = "Drawing"
                /\ \E c \in RaffleSigners : RequestWinnerSelectionError(c, TRUE) = "Ok"
                /\ raffle_account'.vrf_request # None
             \/ /\ raffle_account.status = "Drawing"
                /\ raffle_account'.status = "Complete"
                /\ \E c \in RaffleSigners, n \in TicketNumberInputs :
                     FulfillWinnerSelectionError(c, n) = "Ok"
                /\ raffle_account'.winner # None
             \/ /\ raffle_account.status = "Active"
                /\ raffle_account'.status = "Cancelled"
                /\ \E oc \in BOOLEAN :
                     CancelRaffleError(raffle_account.creator, TRUE, oc) = "Ok"]_vars
  /\ [][(raffle_account.initialized /\ raffle_account.status \in {"Complete", "Cancelled"})
          => raffle_account'.status = raffle_account.status]_vars
\* C28 witness: a raffle with a ticket sold was cancelled by its creator, who
\* got the prize back (and is left without the rent of the two accounts the
\* raffle created); cancelling again is refused because the status is no
\* longer Active, and no winner selection can be requested for it
C28_Witness ==
  /\ raffle_account.initialized
  /\ raffle_account.status = "Cancelled"
  /\ raffle_account.tickets_sold = 1
  /\ raffle_account.creator = RaffleCreator
  /\ raffle_account.ticket_price = U64(1000000)
  /\ lamports[RaffleCreator]
       = U64(200000000 - (128 + RaffleAccountSpace) * 6960 - (128 + EscrowAccountSpace) * 6960)
  /\ lamports[RaffleEscrow] = U64((128 + EscrowAccountSpace) * 6960 + 1000000)
  /\ \A oc \in BOOLEAN :
       CancelRaffleError(raffle_account.creator, TRUE, oc) = "InvalidRaffleState"
  /\ \A c \in RaffleSigners : RequestWinnerSelectionError(c, TRUE) # "Ok"

\* C29: distribute_prize is accepted only for a raffle in status Complete
\* with a selected winner and no distribution time, and is rejected for every
\* caller and every account pair once the distribution time is set; the step
\* that sets the distribution time takes tickets_sold * ticket_price from
\* the escrow, pays winner_amount to the winner and platform_fee to the
\* treasury with winner_amount + platform_fee = tickets_sold * ticket_price;
\* afterwards the distribution time and the escrow balance never change.
\* The amounts are the u64 values the handler computes: at a distribution
\* tickets_sold * ticket_price has not overflowed, and where total * fee_rate
\* overflows a build with overflow checks never distributes (the handler
\* panics) while a wrapping build pays the fee of the wrapped product; the
\* sum of the two payments is the total either way.
C29_DistributeOnce ==
  /\ [](\A c \in RaffleSigners, w \in RaffleWallets, t \in RaffleWallets,
            ok \in BOOLEAN, oc \in BOOLEAN :
          /\ DistributePrizeError(c, w, t, ok, oc) = "Ok"
               => /\ raffle_account.status = "Complete"
                  /\ raffle_account.winner # None
                  /\ raffle_account.distributed_at = None
          /\ raffle_account.distributed_at # None
               => DistributePrizeError(c, w, t, ok, oc) # "Ok")
  /\ [][(raffle_account.distributed_at = None /\ raffle_account'.distributed_at # None)
          => /\ raffle_account.status = "Complete"
             /\ raffle_account.winner # None
             /\ raffle_account'.distributed_at = now
             /\ ~MulOverflows(raffle_account.ticket_price, raffle_account.tickets_sold)
             /\ ~AddOverflows(CalculateWinnerAmount(program_state.fee_rate, FALSE).value,
                              CalculateFee(program_state.fee_rate, FALSE).value)
             /\ WrappingAdd(CalculateWinnerAmount(program_state.fee_rate, FALSE).value,
                            CalculateFee(program_state.fee_rate, FALSE).value)
                  = WrappingMul(raffle_account.ticket_price, raffle_account.tickets_sold)
             /\ raffle_account.winner # program_state.treasury
             /\ ~AddOverflows(lamports[raffle_account.winner],
                              CalculateWinnerAmount(program_state.fee_rate, FALSE).value)
             /\ lamports'[raffle_account.winner]
                  = WrappingAdd(lamports[raffle_account.winner],
                                CalculateWinnerAmount(program_state.fee_rate, FALSE).value)
             /\ ~AddOverflows(lamports[program_state.treasury],
                              CalculateFee(program_state.fee_rate, FALSE).value)
             /\ lamports'[program_state.treasury]
                  = WrappingAdd(lamports[program_state.treasury],
                                CalculateFee(program_state.fee_rate, FALSE).value)
             /\ GreaterOrEqual(lamports[RaffleEscrow], TotalCollected(FALSE).value)
             /\ lamports'[RaffleEscrow]
                  = WrappingSub(lamports[RaffleEscrow], TotalCollected(FALSE).value)]_vars
  /\ [][raffle_account.distributed_at # None
          => /\ raffle_account'.distributed_at = raffle_account.distributed_at
             /\ lamports' = lamports]_vars
\* C29 witness: two tickets were sold and the prize was distributed at a 3%
\* fee (60,000 to the treasury, 1,940,000 to the winner); a further
\* distribute_prize with the right accounts is refused
C29_Witness ==
  /\ raffle_account.status = "Complete"
  /\ raffle_account.distributed_at # None
  /\ raffle_account.tickets_sold = 2
  /\ program_state.fee_rate = 300
  /\ raffle_account.ticket_price = U64(1000000)
  /\ raffle_account.prize_amount = U64(100000000)
  /\ lamports[RaffleTreasury] = U64(60000)
  /\ lamports[RaffleEscrow] = U64(100000000 + (128 + EscrowAccountSpace) * 6960)
  /\ raffle_account.winner = MaxPlayersCfg + 12
  /\ lamports[MaxPlayersCfg + 12] = U64(4000000 - 1000000 - (128 + TicketAccountSpace) * 6960 + 1940000)
  /\ program_state.total_volume = U64(2000000)
  /\ \A oc \in BOOLEAN :
       DistributePrizeError(raffle_account.creator, raffle_account.winner,
                            program_state.treasury, TRUE, oc) = "PrizeAlreadyDistributed"

\* C30: a step that consumes the result of round r sets eliminated_round = r
\* on exactly the active players whose selected number equals the round's
\* drawn number and marks that result used; every other player entry, every
\* other result, the game record (which stays in Playing), the treasury
\* ledger and all balances are unchanged.
C30_EliminationFrame ==
  [][\A r \in DOMAIN vrf_results :
       (~vrf_results[r].used /\ r \in DOMAIN vrf_results' /\ vrf_results'[r].used)
         => /\ game_state.state = "Playing"
            /\ game_state' = game_state
            /\ treasury_state' = treasury_state
            /\ balances' = balances
            /\ DOMAIN vrf_results' = DOMAIN vrf_results
            /\ \A q \in DOMAIN vrf_results :
                 vrf_results'[q] = IF q = r THEN [vrf_results[q] EXCEPT !.used = TRUE]
                                   ELSE vrf_results[q]
            /\ Len(player_list') = Len(player_list)
            /\ \A i \in 1..Len(player_list) :
                 player_list'[i] =
                   IF /\ player_list[i].eliminated_round = None
                      /\ player_list[i].selected_number = vrf_results[r].drawn_number
                   THEN [player_list[i] EXCEPT !.eliminated_round = r]
                   ELSE player_list[i]]_vars
\* C30 witness: after round 2 was processed one player is out since round 1,
\* one since round 2, the remaining count is at most winner_count and the game
\* is still in Playing
C30_Witness ==
  /\ game_state.state = "Playing"
  /\ 2 \in DOMAIN vrf_results
  /\ vrf_results[2].used
  /\ \E i, j \in 1..Len(player_list) :
       player_list[i].eliminated_round = 1 /\ player_list[j].eliminated_round = 2
  /\ Cardinality(ActiveIdx) <= game_state.winner_count

\* C31: a step that assigns a number to a player happens in NumberSelection
\* and leaves the game record, and so the lifecycle state, unchanged, also
\* when it leaves every active player with a number; the all-numbers-selected
\* signal of that step (players_with_numbers == active_players on the updated
\* roster) is raised exactly when every active player has a number afterwards.
C31_SelectKeepsState ==
  [][(/\ Len(player_list') = Len(player_list)
      /\ \E i \in 1..Len(player_list) :
           player_list'[i].selected_number # player_list[i].selected_number)
       => /\ game_state.state = "NumberSelection"
          /\ game_state' = game_state
          /\ AllNumbersSelected(player_list')
               <=> \A i \in 1..Len(player_list') :
                     player_list'[i].eliminated_round = None
                       => player_list'[i].selected_number # None]_vars
\* C31 witness: both players of a full two-player game have selected a
\* number, the signal condition holds, and the game is still in NumberSelection
C31_Witness ==
  /\ game_state.state = "NumberSelection"
  /\ Len(player_list) = 2
  /\ \A i \in 1..Len(player_list) : player_list[i].selected_number # None
  /\ AllNumbersSelected(player_list)

\* C32: a step that adds a player moves the game to NumberSelection and
\* records the start time if and only if the roster then has max_players
\* entries; every other such step leaves the state Joining and the start time
\* unset; a game in NumberSelection, Playing, Distributing or Completed has a
\* full roster and a start time, and a game in Joining has neither.
C32_JoinFillsLastSlot ==
  /\ [](/\ game_state.state \in {"NumberSelection", "Playing", "Distributing", "Completed"}
             => /\ Len(player_list) = game_state.max_players
                /\ game_state.started_at # None
        /\ game_state.state = "Joining"
             => /\ Len(player_list) < game_state.max_players
                /\ game_state.started_at = None)
  /\ [][Len(player_list') = Len(player_list) + 1
          => /\ game_state.state = "Joining"
             /\ IF Len(player_list') = game_state.max_players
                THEN /\ game_state'.state = "NumberSelection"
                     /\ game_state'.started_at = now
                ELSE /\ game_state'.state = "Joining"
                     /\ game_state'.started_at = None]_vars
\* C32 witness: the third join of a three-player game, at time 0, filled the
\* roster, moved the game to NumberSelection and recorded the start time
C32_Witness ==
  /\ game_state.state = "NumberSelection"
  /\ game_state.max_players = 3
  /\ Len(player_list) = 3
  /\ game_state.started_at = 0
  /\ game_state.prize_pool = 3 * game_state.entry_fee

\* C33: the step that settles a game (it is the only step that changes
\* total_collected or moves the game from Playing to Distributing) moves
\* exactly treasury_fee from the escrow to the treasury token account, adds
\* exactly treasury_fee to total_collected and to pending_withdrawal, sets the
\* state to Distributing and records the completion time, changing nothing
\* else of the game record; once the game has left Playing complete_game is
\* rejected for every caller and the game never returns to Playing, so the
\* fee of a game is transferred at most once.
C33_CompleteGameEffect ==
  /\ [](game_state.state # "Playing"
          => \A c \in Signers : CompleteGameError(c) # "Ok")
  /\ [][(\/ treasury_state'.total_collected # treasury_state.total_collected
         \/ (game_state.state = "Playing" /\ game_state'.state = "Distributing"))
          => /\ game_state.state = "Playing"
             /\ game_state' = [game_state EXCEPT !.state = "Distributing",
                                                 !.completed_at = now]
             /\ balances' = [balances EXCEPT
                  ![EscrowAccount] = @ - game_state.treasury_fee,
                  ![TreasuryTokenAccount] = @ + game_state.treasury_fee]
             /\ treasury_state' = [treasury_state EXCEPT
                  !.total_collected = @ + game_state.treasury_fee,
                  !.pending_withdrawal = @ + game_state.treasury_fee]]_vars
  /\ [][game_state.state \in {"Distributing", "Completed", "Cancelled"}
          => /\ game_state'.state # "Playing"
             /\ treasury_state'.total_collected = treasury_state.total_collected]_vars
\* C33 witness: a three-player game was settled: its fee of 6 was collected
\* and is held by the treasury token account, the completion time is recorded
\* and a second complete_game by the authority is refused
C33_Witness ==
  /\ game_state.state = "Distributing"
  /\ game_state.treasury_fee = 6
  /\ game_state.completed_at # None
  /\ treasury_state.total_collected = 6
  /\ treasury_state.pending_withdrawal = 6
  /\ balances[TreasuryTokenAccount] = 6
  /\ CompleteGameError(game_state.authority) = "InvalidGameState"

\* C34: a rejected operation is a whole-operation abort.  No step of an
\* operation exists from a state in which its checks reject the call, so the
\* game, the roster, the randomness results, the treasury ledger and all
\* balances are as before; in particular process_elimination, complete_game
\* and cancel_game by a caller other than the game authority, the oracle-signed
\* submission by a caller other than the randomness authority and
\* withdraw_treasury by a caller other than the treasury authority are
\* rejected whatever their other arguments are.
C34_RejectedCallAborts ==
  /\ \A c \in Signers :
       /\ c # game_state.authority =>
            /\ \A r \in RoundInputs : ~ENABLED ProcessElimination(c, r)
            /\ ~ENABLED CompleteGame(c)
            /\ \A l \in ReasonLenInputs : ~ENABLED CancelGame(c, l)
       /\ c # game_state.vrf_oracle =>
            \A r \in RoundInputs, v \in RandomValues, l \in ProofLenInputs :
              ~ENABLED SubmitVrf(c, r, v, l)
       /\ c # treasury_state.authority =>
            \A a \in AmountInputs : ~ENABLED WithdrawTreasury(c, a)
  /\ \A c \in Signers :
       /\ \A r \in RoundInputs :
            ProcessEliminationError(c, r) # "Ok" => ~ENABLED ProcessElimination(c, r)
       /\ CompleteGameError(c) # "Ok" => ~ENABLED CompleteGame(c)
       /\ \A l \in ReasonLenInputs :
            CancelGameError(c, l) # "Ok" => ~ENABLED CancelGame(c, l)
       /\ \A r \in RoundInputs, v \in RandomValues, l \in ProofLenInputs :
            SubmitVrfError(c, r, l) # "Ok" => ~ENABLED SubmitVrf(c, r, v, l)
       /\ \A a \in AmountInputs :
            WithdrawTreasuryError(c, a) # "Ok" => ~ENABLED WithdrawTreasury(c, a)
  /\ \A w \in Wallets :
       /\ JoinGameError(w) # "Ok" => ~ENABLED JoinGame(w)
       /\ \A n \in NumberInputs :
            SelectNumberError(w, n) # "Ok" => ~ENABLED SelectNumber(w, n)
       /\ RequestRefundError(w) # "Ok" => ~ENABLED RequestRefund(w)
       /\ ClaimPrizeError(w) # "Ok" => ~ENABLED ClaimPrize(w)

\* A round's result waits in a running game: the authority's elimination
\* call would be accepted, the oracle's and a player's are rejected.
C34_Witness ==
  /\ game_state.state = "Playing"
  /\ game_state.current_round = 1
  /\ ProcessEliminationError(game_state.authority, 1) = "Ok"
  /\ ProcessEliminationError(game_state.vrf_oracle, 1) = "Unauthorized"
  /\ ProcessEliminationError(1, 1) = "Unauthorized"
  /\ CompleteGameError(game_state.vrf_oracle) = "Unauthorized"
  /\ SubmitVrfError(game_state.authority, 2, 64) = "Unauthorized"

\* C35: escrow solvency after settlement.  In every Distributing state the
\* escrow holds at least the sum of prize_amount over the winners who have not
\* claimed yet, the prizes sum to at most prize_pool - treasury_fee, every
\* such winner's first claim_prize is accepted, and the escrow balance is
\* never negative.
C35_EscrowCoversPrizes ==
  LET owed[i \in 0..Len(player_list)] ==
        IF i = 0 THEN 0
        ELSE owed[i - 1] + (IF player_list[i].is_winner /\ ~player_list[i].prize_claimed
                            THEN player_list[i].prize_amount ELSE 0)
      awarded[i \in 0..Len(player_list)] ==
        IF i = 0 THEN 0
        ELSE awarded[i - 1] + (IF player_list[i].is_winner
                               THEN player_list[i].prize_amount ELSE 0)
  IN  /\ balances[EscrowAccount] >= 0
      /\ game_state.state = "Distributing" =>
           /\ balances[EscrowAccount] >= owed[Len(player_list)]
           /\ awarded[Len(player_list)] <= game_state.prize_pool - game_state.treasury_fee
           /\ \A i \in 1..Len(player_list) :
                (/\ player_list[i].is_winner
                 /\ ~player_list[i].prize_claimed
                 /\ player_list[i].prize_amount > 0)
                  => ClaimPrizeError(player_list[i].wallet) = "Ok"

\* Two winners, one already paid: what is left in escrow covers the other
\* prize but not two of them.
C35_Witness ==
  /\ game_state.state = "Distributing"
  /\ \E i, j \in 1..Len(player_list) :
       /\ i # j
       /\ player_list[i].is_winner /\ player_list[i].prize_claimed
       /\ player_list[j].is_winner /\ ~player_list[j].prize_claimed
       /\ player_list[j].prize_amount > 0
       /\ balances[EscrowAccount] >= player_list[j].prize_amount
       /\ balances[EscrowAccount] < 2 * player_list[j].prize_amount

\* C36: escrow solvency after cancellation.  The step that cancels a game
\* moves no funds and changes no roster record, and no processed flag is set
\* at that moment; in every Cancelled state the escrow balance equals
\* entry_fee times the number of roster players whose refund is not yet
\* processed.
C36_EscrowCoversRefunds ==
  /\ [](game_state.state = "Cancelled" =>
          balances[EscrowAccount] =
            game_state.entry_fee
              * Cardinality({i \in 1..Len(player_list) : ~player_list[i].prize_claimed}))
  /\ [][(game_state.state # "Cancelled" /\ game_state'.state = "Cancelled")
          => /\ balances' = balances
             /\ player_list' = player_list
             /\ treasury_state' = treasury_state
             /\ \A i \in 1..Len(player_list) : ~player_list[i].prize_claimed
             /\ balances[EscrowAccount] = game_state.entry_fee * Len(player_list)]_vars

\* A cancelled three-player game in which one refund has been paid.
C36_Witness ==
  /\ game_state.state = "Cancelled"
  /\ Len(player_list) = 3
  /\ Cardinality({i \in 1..Len(player_list) : player_list[i].prize_claimed}) = 1
  /\ balances[EscrowAccount] = 2 * game_state.entry_fee
  /\ game_state.treasury_fee > 0

\* C37: prize claims and refunds share the per-player flag prize_claimed
\* without interfering.  A player's balance grows only by a prize claimed in
\* Distributing or by a refund requested in Cancelled, each time setting the
\* player's flag, which is never reset; a game is never both Distributing and
\* Cancelled during its life, so no player receives both a prize and a
\* refund, and a set flag never blocks an entitled payment: an unflagged
\* winner's claim and an unflagged player's refund are accepted.
C37_PrizeXorRefund ==
  /\ [](/\ (\E i \in 1..Len(player_list) : player_list[i].prize_claimed)
             => game_state.state \in {"Distributing", "Cancelled"}
        /\ game_state.state = "Distributing" =>
             \A i \in 1..Len(player_list) :
               /\ player_list[i].prize_claimed => player_list[i].is_winner
               /\ RequestRefundError(player_list[i].wallet) = "GameNotCancelled"
               /\ (/\ player_list[i].is_winner
                   /\ ~player_list[i].prize_claimed
                   /\ player_list[i].prize_amount > 0)
                    => ClaimPrizeError(player_list[i].wallet) = "Ok"
        /\ game_state.state = "Cancelled" =>
             \A i \in 1..Len(player_list) :
               /\ ~player_list[i].is_winner
               /\ ClaimPrizeError(player_list[i].wallet) = "InvalidGameState"
               /\ ~player_list[i].prize_claimed
                    => RequestRefundError(player_list[i].wallet) = "Ok")
  /\ [][/\ game_state.state = "Distributing" => game_state'.state = "Distributing"
        /\ game_state.state = "Cancelled" => game_state'.state = "Cancelled"
        /\ \A i \in 1..Len(player_list) :
             /\ player_list[i].prize_claimed
                  => /\ Len(player_list') = Len(player_list)
                     /\ player_list'[i].prize_claimed
             /\ balances'[player_list[i].wallet] > balances[player_list[i].wallet]
                  => /\ ~player_list[i].prize_claimed
                     /\ player_list' = [player_list EXCEPT ![i].prize_claimed = TRUE]
                     /\ \/ /\ game_state.state = "Distributing"
                           /\ player_list[i].is_winner
                           /\ balances'[player_list[i].wallet]
                                = balances[player_list[i].wallet] + player_list[i].prize_amount
                        \/ /\ game_state.state = "Cancelled"
                           /\ balances'[player_list[i].wallet]
                                = balances[player_list[i].wallet] + game_state.entry_fee]_vars

\* A winner has been paid the prize in a settled game; the flag is set and
\* the refund path is closed to every player.
C37_Witness ==
  /\ game_state.state = "Distributing"
  /\ \E i \in 1..Len(player_list) :
       /\ player_list[i].is_winner
       /\ player_list[i].prize_claimed
       /\ balances[player_list[i].wallet]
            = InitialBalance - game_state.entry_fee + player_list[i].prize_amount
       /\ ClaimPrizeError(player_list[i].wallet) = "PrizeAlreadyClaimed"
       /\ RequestRefundError(player_list[i].wallet) = "GameNotCancelled"
       /\ CancelGameError(game_state.authority, 20) = "CannotCancelGame"

\* C38: a successful process_elimination eliminates at most one player,
\* because the players' selected numbers are pairwise distinct.  The number
\* of active players falls by at most one in a round and never rises once
\* the roster is complete, and an eliminated player never becomes active
\* again.
C38_OneEliminationPerRound ==
  /\ [](\A i, j \in 1..Len(player_list) :
          (i # j /\ player_list[i].selected_number # None)
            => player_list[i].selected_number # player_list[j].selected_number)
  /\ [][/\ \A i \in 1..Len(player_list) :
             player_list[i].eliminated_round # None
               => /\ Len(player_list') = Len(player_list)
                  /\ player_list'[i].eliminated_round = player_list[i].eliminated_round
        /\ Len(player_list') = Len(player_list) =>
             LET gone == {i \in 1..Len(player_list) :
                            /\ player_list[i].eliminated_round = None
                            /\ player_list'[i].eliminated_round # None}
             IN  /\ Cardinality(gone) <= 1
                 /\ Cardinality({i \in 1..Len(player_list') :
                                   player_list'[i].eliminated_round = None})
                      = Cardinality(ActiveIdx) - Cardinality(gone)
                 /\ gone # {} =>
                      /\ ProcessEliminationError(game_state.authority,
                                                 game_state.current_round) = "Ok"
                      /\ vrf_results'[game_state.current_round].used
                      /\ \A i \in gone :
                           /\ player_list[i].selected_number
                                = vrf_results[game_state.current_round].drawn_number
                           /\ player_list'[i].eliminated_round = game_state.current_round]_vars

\* The second round's number has taken out a second player, one round after
\* the first; one player of the three is still active.
C38_Witness ==
  /\ game_state.state = "Playing"
  /\ Len(player_list) = 3
  /\ game_state.current_round = 2
  /\ 2 \in DOMAIN vrf_results
  /\ vrf_results[2].used
  /\ Cardinality(ActiveIdx) = 1
  /\ \E i, j \in 1..Len(player_list) :
       /\ player_list[i].eliminated_round = 1
       /\ player_list[j].eliminated_round = 2
       /\ player_list[i].selected_number # player_list[j].selected_number

\* C39: rounds are consumed in order.  process_elimination for round r is
\* accepted only while current_round = r; current_round never goes back, so
\* once the randomness of a later round has been ingested an unconsumed
\* result of round r stays unconsumed for ever and its drawn number is never
\* applied: every elimination is recorded for the current round and matches
\* the current round's drawn number.
C39_StaleRoundNeverConsumed ==
  /\ [](\A c \in Signers, r \in RoundInputs :
          ProcessEliminationError(c, r) = "Ok" => r = game_state.current_round)
  /\ [](\A r \in DOMAIN vrf_results :
          /\ vrf_results[r].round = r
          /\ r <= game_state.current_round
          /\ r < game_state.current_round =>
               \A c \in Signers : ProcessEliminationError(c, r) # "Ok")
  /\ [][/\ game_state'.current_round >= game_state.current_round
        /\ \A r \in DOMAIN vrf_results :
             /\ r \in DOMAIN vrf_results'
             /\ r # game_state.current_round => vrf_results'[r] = vrf_results[r]
             /\ vrf_results'[r].drawn_number = vrf_results[r].drawn_number
        /\ Len(player_list') = Len(player_list) =>
             \A i \in 1..Len(player_list) :
               player_list'[i].eliminated_round # player_list[i].eliminated_round
                 => /\ player_list'[i].eliminated_round = game_state.current_round
                    /\ player_list[i].selected_number
                         = vrf_results[game_state.current_round].drawn_number]_vars

\* Round 2 was ingested and consumed while the result of round 1 was still
\* unconsumed; the authority's call for round 1 is refused.
C39_Witness ==
  /\ game_state.state = "Playing"
  /\ game_state.current_round = 2
  /\ DOMAIN vrf_results = {1, 2}
  /\ ~vrf_results[1].used
  /\ vrf_results[2].used
  /\ vrf_results[1].drawn_number # vrf_results[2].drawn_number
  /\ \E i \in 1..Len(player_list) :
       /\ player_list[i].selected_number = vrf_results[1].drawn_number
       /\ player_list[i].eliminated_round = None
  /\ ProcessEliminationError(game_state.authority, 1) = "InvalidRound"

\* C40: for a game in Joining with a non-empty roster, join and cancel_game
\* are never both accepted at the same instant: an accepted join means the
\* clock is at or before the payment deadline, where every cancel_game is
\* refused, and an accepted cancel_game means the clock is strictly after it,
\* where every join is refused as expired.
C40_JoinExcludesCancel ==
  (game_state.state = "Joining" /\ player_list # <<>>) =>
    /\ ~(/\ \E w \in Signers : JoinGameError(w) = "Ok"
         /\ \E c \in Signers, l \in ReasonLenInputs : CancelGameError(c, l) = "Ok")
    /\ (\E w \in Signers : JoinGameError(w) = "Ok") =>
         /\ now <= game_state.payment_deadline
         /\ \A l \in ReasonLenInputs :
              CancelGameError(game_state.authority, l)
                \in {"ReasonTooLong", "CannotCancelActiveGame"}
         /\ ~ENABLED (\E c \in Signers, l \in ReasonLenInputs : CancelGame(c, l))
    /\ (\E c \in Signers, l \in ReasonLenInputs : CancelGameError(c, l) = "Ok") =>
         /\ now > game_state.payment_deadline
         /\ \A w \in Signers : JoinGameError(w) = "PaymentDeadlineExpired"
         /\ ~ENABLED (\E w \in Signers : JoinGame(w))

\* At the deadline instant itself a second player may still join a game that
\* has one player, and the authority's cancellation is refused.
C40_Witness ==
  /\ game_state.state = "Joining"
  /\ Len(player_list) = 1
  /\ now = game_state.payment_deadline
  /\ \E w \in Wallets : JoinGameError(w) = "Ok"
  /\ CancelGameError(game_state.authority, 20) = "CannotCancelActiveGame"

Next ==
  \/ Tick
  \/ \E w \in JoinInputs : JoinGame(w)
  \/ \E w \in Wallets, n \in NumberInputs : SelectNumber(w, n)
  \/ \E c \in Signers : StartGame(c)
  \/ \E c \in Signers, l \in ReasonLenInputs : CancelGame(c, l)
  \/ \E w \in Wallets : RequestRefund(w)
  \/ \E c \in Signers, r \in RoundInputs, v \in RandomValues, l \in ProofLenInputs :
       r <= MaxRound /\ SubmitVrf(c, r, v, l)
  \/ \E r \in RoundInputs, ok \in BOOLEAN : r <= MaxRound /\ RequestOraoVrf(r, ok)
  \/ \E r \in RoundInputs, f \in RandomnessInputs, v \in RandomValues :
       r <= MaxRound /\ FulfillOraoVrf(r, f, v)
  \/ \E c \in Signers, r \in RoundInputs : ProcessElimination(c, r)
  \/ \E c \in Signers : CompleteGame(c)
  \/ \E w \in Wallets : ClaimPrize(w)
  \/ \E c \in Signers, a \in AmountInputs : WithdrawTreasury(c, a)

Spec == Init /\ [][Next]_vars
====
